---- MODULE Spec2Model ----
(***************************************************************************)
(* Drawio-Quick-Launcher: the XML sanitizer of the background script       *)
(* (sanitizeXml) as a state machine.  One call of sanitizeXml is one       *)
(* behaviour: Init picks the argument, every iteration of the scan loop is *)
(* one step, Return is the `return result` after the loop (Spec, and      *)
(* LexSpec on the inputs that exercise its lexical rules).  Further        *)
(* specifications of this module model several calls of sanitizeXml in     *)
(* progress at once (ConcSpec), the background script that calls it        *)
(* (BgSpec; MsgSpec and MsgFairSpec with the responses of its message     *)
(* listener, DetectSpec with the texts its type detector tells apart),    *)
(* the content script that injects the buttons (PageSpec, PageFairSpec    *)
(* with its timer firing, RetrySpec with a text that keeps changing) and  *)
(* the click on a button while the extension context can be lost          *)
(* (ClickSpec); each specification moves its own variables and leaves the *)
(* others idle.                                                            *)
(*                                                                         *)
(* A string is a sequence of characters, a character is a one-character    *)
(* string (a letter outside ASCII is written by its code point).  The     *)
(* cursor i is 0-based as in the source, so the character xml[i] of the    *)
(* source is xml[i + 1] here (see CharAt).                                 *)
(***************************************************************************)
EXTENDS Integers, Sequences, FiniteSets

VARIABLES
    xml,      \* the argument of sanitizeXml (immutable during the call)
    i,        \* the cursor
    state,    \* the parse state
    result,   \* the output buffer
    pc,       \* "loop" while the while-loop runs, "done" after the return
    hist      \* history: one record per loop iteration (cursor and state
              \* before it, characters consumed, text appended to result)

sanVars == <<xml, i, state, result, pc, hist>>

VARIABLES
    calls     \* ConcSpec: the calls of sanitizeXml made so far, each with
              \* its own locals (xml, i, state, result) and its position

concVars == <<calls>>

VARIABLES
    tasks,    \* BgSpec: the calls of processDiagram made so far, each with
              \* its arguments, its locals, its position and the steps it ran
    running,  \* the call of processDiagram that runs now, 0 when the
              \* background script is between two event-loop tasks
    tabs,     \* the tabs created by chrome.tabs.create, in order
    menu,     \* the get_selection_context messages awaiting their callback
    events,   \* the number of events the background script has handled
    channels  \* the messages the onMessage listener has handled, each with
              \* what the listener returned, the call of processDiagram it
              \* made and the responses sent on its channel

bgVars == <<tasks, running, tabs, menu, events, channels>>

VARIABLES
    site,             \* PageSpec: the site of the page (the IS_... constants)
    page,             \* the code block of the page: its elements, its text,
                      \* the classes of its CODE, its button containers
    pendingBlocks,    \* the Set pendingBlocks, in insertion order
    processedBlocks,  \* the WeakSet processedBlocks
    retryCount,       \* block._retryCount, 0 where it is not set
    buttons,          \* the buttons inserted: the block each was created for
                      \* and the place it was inserted at
    timeout,          \* is the timer of the debounced function armed?
    elapsed,          \* the time since the debounced function was last
                      \* called, in ticks, up to the wait
    ran,              \* how often processPendingBlocks has run since then
    cleared,          \* has a call of the debounced function cleared a
                      \* running timer since the last run?
    records,          \* the tag names of the nodes the last run inserted,
                      \* until the observer's callback has seen them
    mutations         \* the number of changes the page has made

pageVars == <<site, page, pendingBlocks, processedBlocks, retryCount,
              buttons, timeout, elapsed, ran, cleared, records,
              mutations>>

VARIABLES
    extensionContextValid,  \* ClickSpec: the flag of the content script
    healthCheckInterval,    \* is the interval of the health check set?
    runtime,                \* chrome.runtime.id: "ok" or "lost"
    awaiting,               \* the click handlers that await sendMessage
    log                     \* what the clicks did: the alerts shown, the
                            \* messages sent and how each send settled

clickVars == <<extensionContextValid, healthCheckInterval, runtime,
               awaiting, log>>

vars == <<sanVars, concVars, bgVars, pageVars, clickVars>>

(* Parse states, with the numbers of the source.                           *)

STATE_TEXT == 0
STATE_TAG_OPEN == 1
STATE_TAG_NAME == 2
STATE_ATTR_NAME == 3
STATE_ATTR_VALUE_Q == 4
STATE_ATTR_VALUE_DQ == 5
STATE_COMMENT == 6
STATE_CDATA == 7

States == STATE_TEXT..STATE_CDATA

(* Character classes of the regular expressions used by the source.        *)

\* [a-z] and [A-Z]
LowerLetters ==
    {"a", "b", "c", "d", "e", "f", "g", "h", "i", "j", "k", "l", "m",
     "n", "o", "p", "q", "r", "s", "t", "u", "v", "w", "x", "y", "z"}

UpperLetters ==
    {"A", "B", "C", "D", "E", "F", "G", "H", "I", "J", "K", "L", "M",
     "N", "O", "P", "Q", "R", "S", "T", "U", "V", "W", "X", "Y", "Z"}

\* [a-zA-Z]
Letters == LowerLetters \cup UpperLetters

\* \d and [0-9]
Digits == {"0", "1", "2", "3", "4", "5", "6", "7", "8", "9"}

\* [0-9A-Fa-f]
HexDigits == Digits \cup {"a", "b", "c", "d", "e", "f"}
                    \cup {"A", "B", "C", "D", "E", "F"}

\* \s (the white space characters a string of this model can hold)
Whitespace == {" ", "\t", "\n", "\r", "\f"}

(* String primitives of JavaScript used by the source, on 0-based indexes. *)

\* source[index]; undefined (here "") outside the string
CharAt(source, index) ==
    IF index >= 0 /\ index < Len(source) THEN source[index + 1] ELSE ""

\* source.startsWith(prefix, index)
StartsWith(source, prefix, index) ==
    /\ index + Len(prefix) <= Len(source)
    /\ \A k \in 1..Len(prefix) : source[index + k] = prefix[k]

\* text.endsWith(suffix)
EndsWith(text, suffix) ==
    /\ Len(suffix) <= Len(text)
    /\ \A k \in 1..Len(suffix) : text[Len(text) - Len(suffix) + k] = suffix[k]

\* source.indexOf(ch, from): the least index >= from holding ch, or -1
IndexOf(source, ch, from) ==
    LET hits == {k \in from..(Len(source) - 1) : source[k + 1] = ch}
    IN  IF hits = {} THEN -1
        ELSE CHOOSE k \in hits : \A m \in hits : k <= m

\* source.slice(from, to) for 0 <= from, to <= length
Slice(source, from, to) == SubSeq(source, from + 1, to)


(* The literal texts the sanitizer appends.                                *)

CDATA_OPEN == <<"<", "!", "[", "C", "D", "A", "T", "A", "[">>
CDATA_CLOSE == <<"]", "]", ">">>
COMMENT_OPEN == <<"<", "!", "-", "-">>
COMMENT_CLOSE == <<"-", "-", ">">>
ENT_LT == <<"&", "l", "t", ";">>
ENT_GT == <<"&", "g", "t", ";">>
ENT_AMP == <<"&", "a", "m", "p", ";">>
ENT_QUOT == <<"&", "q", "u", "o", "t", ";">>
ENT_APOS == <<"&", "a", "p", "o", "s", ";">>

\* Faulty variants of the two cursor jumps: one character too far.
CdataSkip_OneMore == 9 + 1
CommentSkip_OneMore == 4 + 1

\* `i += 9` after the CDATA opener, `i += 4` after the comment opener
CdataSkip == 9
CommentSkip == 4

(* The two helper predicates of sanitizeXml.                               *)

\* /^#x[0-9A-Fa-f]+$/.test(entityBody)
IsHexBody(entityBody) ==
    /\ Len(entityBody) >= 3
    /\ entityBody[1] = "#"
    /\ entityBody[2] = "x"
    /\ \A k \in 3..Len(entityBody) : entityBody[k] \in HexDigits

\* /^#\d+$/.test(entityBody)
IsDecimalBody(entityBody) ==
    /\ Len(entityBody) >= 2
    /\ entityBody[1] = "#"
    /\ \A k \in 2..Len(entityBody) : entityBody[k] \in Digits

\* /^[a-zA-Z][a-zA-Z0-9]+$/.test(entityBody)
IsNamedBody(entityBody) ==
    /\ Len(entityBody) >= 2
    /\ entityBody[1] \in Letters
    /\ \A k \in 2..Len(entityBody) : entityBody[k] \in Letters \cup Digits

\* Faulty variant: the hexadecimal form is forgotten.
isPreEscapedEntity_NoHex(source, index) ==
    IF CharAt(source, index) # "&" THEN FALSE
    ELSE LET semi == IndexOf(source, ";", index + 1)
         IN  IF semi = -1 THEN FALSE
             ELSE LET entityBody == Slice(source, index + 1, semi)
                  IN  IsDecimalBody(entityBody) \/ IsNamedBody(entityBody)

\* Faulty variant: the body is taken up to the last `;` of the source.
isPreEscapedEntity_LastSemi(source, index) ==
    IF CharAt(source, index) # "&" THEN FALSE
    ELSE LET semis == {k \in (index + 1)..(Len(source) - 1) :
                          source[k + 1] = ";"}
         IN  IF semis = {} THEN FALSE
             ELSE LET semi == CHOOSE k \in semis : \A m \in semis : m <= k
                      entityBody == Slice(source, index + 1, semi)
                  IN  IF entityBody = <<>> THEN FALSE
                      ELSE \/ IsHexBody(entityBody)
                           \/ IsDecimalBody(entityBody)
                           \/ IsNamedBody(entityBody)

\* Does the ampersand at source[index] already start a valid entity?
isPreEscapedEntity(source, index) ==
    IF CharAt(source, index) # "&" THEN FALSE
    ELSE LET semi == IndexOf(source, ";", index + 1)
         IN  IF semi = -1 THEN FALSE
             ELSE LET entityBody == Slice(source, index + 1, semi)
                  IN  IF entityBody = <<>> THEN FALSE
                      ELSE \/ IsHexBody(entityBody)
                           \/ IsDecimalBody(entityBody)
                           \/ IsNamedBody(entityBody)

\* Faulty variant: `>` is forgotten among the terminators.
isAttributeTerminator_NoGt(nextChar) ==
    \/ nextChar = ""
    \/ nextChar = "/"
    \/ nextChar = "?"
    \/ nextChar \in Whitespace

\* Faulty variant: `?` is forgotten among the terminators.
isAttributeTerminator_NoQuestion(nextChar) ==
    \/ nextChar = ""
    \/ nextChar = ">"
    \/ nextChar = "/"
    \/ nextChar \in Whitespace

\* Is a quote followed by nextChar likely the end of an attribute value?
\* (nextChar is "" at the end of the input.)
isAttributeTerminator(nextChar) ==
    \/ nextChar = ""
    \/ nextChar = ">"
    \/ nextChar = "/"
    \/ nextChar = "?"
    \/ nextChar \in Whitespace

\* Faulty variant: the digits are forgotten in the character class.
IsTagStart_NoDigit(nextChar) ==
    nextChar \in Letters \cup {"_", ":", "/", "?", "!"}

\* Faulty variant: `>` is taken for a tag-start character.
IsTagStart_WithGt(nextChar) ==
    nextChar \in Letters \cup Digits \cup {"_", ":", "/", "?", "!", ">"}

\* /[a-zA-Z0-9_:\/\?!]/.test(nextChar), the tag-start check of STATE_TEXT
IsTagStart(nextChar) ==
    nextChar \in Letters \cup Digits \cup {"_", ":", "/", "?", "!"}

\* const nextChar = i + 1 < len ? xml[i + 1] : ''
NextChar(source, index) ==
    IF index + 1 < Len(source) THEN source[index + 2] ELSE ""

(* One iteration of the scan loop, per parse state: the state after it,    *)
(* the text appended to result and the number of characters consumed.      *)

Emit(nextState, text, count) == [state |-> nextState, out |-> text, n |-> count]

\* Faulty variant: the ampersand is copied without the entity test.
AmpText_Raw(source, index) == <<"&">>

\* Faulty variant: every ampersand is escaped, without the entity test.
AmpText_Always(source, index) == ENT_AMP

\* isPreEscapedEntity(xml, i) ? '&' : '&amp;'
AmpText(source, index) ==
    IF isPreEscapedEntity(source, index) THEN <<"&">> ELSE ENT_AMP

\* Faulty variant: a loose `>` in text is copied instead of escaped.
TextStep_RawGt(source, index) ==
    LET char == CharAt(source, index)
    IN  IF char = "<"
        THEN IF StartsWith(source, CDATA_OPEN, index)
             THEN Emit(STATE_CDATA, CDATA_OPEN, CdataSkip)
             ELSE IF StartsWith(source, COMMENT_OPEN, index)
             THEN Emit(STATE_COMMENT, COMMENT_OPEN, CommentSkip)
             ELSE IF IsTagStart(NextChar(source, index))
             THEN Emit(STATE_TAG_OPEN, <<char>>, 1)
             ELSE Emit(STATE_TEXT, ENT_LT, 1)
        ELSE IF char = "&" THEN Emit(STATE_TEXT, AmpText(source, index), 1)
        ELSE Emit(STATE_TEXT, <<char>>, 1)

\* Faulty variant: the tag-start check comes before the two openers.
TextStep_TagStartFirst(source, index) ==
    LET char == CharAt(source, index)
    IN  IF char = "<"
        THEN IF IsTagStart(NextChar(source, index))
             THEN Emit(STATE_TAG_OPEN, <<char>>, 1)
             ELSE IF StartsWith(source, CDATA_OPEN, index)
             THEN Emit(STATE_CDATA, CDATA_OPEN, CdataSkip)
             ELSE IF StartsWith(source, COMMENT_OPEN, index)
             THEN Emit(STATE_COMMENT, COMMENT_OPEN, CommentSkip)
             ELSE Emit(STATE_TEXT, ENT_LT, 1)
        ELSE IF char = "&" THEN Emit(STATE_TEXT, AmpText(source, index), 1)
        ELSE IF char = ">" THEN Emit(STATE_TEXT, ENT_GT, 1)
        ELSE Emit(STATE_TEXT, <<char>>, 1)

TextStep(source, index) ==
    LET char == CharAt(source, index)
    IN  IF char = "<"
        THEN IF StartsWith(source, CDATA_OPEN, index)
             THEN Emit(STATE_CDATA, CDATA_OPEN, CdataSkip)
             ELSE IF StartsWith(source, COMMENT_OPEN, index)
             THEN Emit(STATE_COMMENT, COMMENT_OPEN, CommentSkip)
             ELSE IF IsTagStart(NextChar(source, index))
             THEN Emit(STATE_TAG_OPEN, <<char>>, 1)
             ELSE Emit(STATE_TEXT, ENT_LT, 1)
        ELSE IF char = "&" THEN Emit(STATE_TEXT, AmpText(source, index), 1)
        ELSE IF char = ">" THEN Emit(STATE_TEXT, ENT_GT, 1)
        ELSE Emit(STATE_TEXT, <<char>>, 1)

TagOpenStep(source, index) ==
    LET char == CharAt(source, index)
    IN  IF char \in Whitespace THEN Emit(STATE_TAG_NAME, <<char>>, 1)
        ELSE IF char = ">" THEN Emit(STATE_TEXT, <<char>>, 1)
        ELSE Emit(STATE_TAG_NAME, <<char>>, 1)

\* Faulty variant: a quote right after the tag name opens a value.
TagNameStep_QuoteOpens(source, index) ==
    LET char == CharAt(source, index)
    IN  IF char \in Whitespace THEN Emit(STATE_ATTR_NAME, <<char>>, 1)
        ELSE IF char = ">" THEN Emit(STATE_TEXT, <<char>>, 1)
        ELSE IF char = "\"" THEN Emit(STATE_ATTR_VALUE_DQ, <<char>>, 1)
        ELSE IF char = "'" THEN Emit(STATE_ATTR_VALUE_Q, <<char>>, 1)
        ELSE Emit(STATE_TAG_NAME, <<char>>, 1)

TagNameStep(source, index) ==
    LET char == CharAt(source, index)
    IN  IF char \in Whitespace THEN Emit(STATE_ATTR_NAME, <<char>>, 1)
        ELSE IF char = ">" THEN Emit(STATE_TEXT, <<char>>, 1)
        ELSE Emit(STATE_TAG_NAME, <<char>>, 1)

\* Faulty variant: the `/` of a self-closing tag is not copied.
AttrNameStep_DropsSlash(source, index) ==
    LET char == CharAt(source, index)
    IN  IF char = "\"" THEN Emit(STATE_ATTR_VALUE_DQ, <<char>>, 1)
        ELSE IF char = "'" THEN Emit(STATE_ATTR_VALUE_Q, <<char>>, 1)
        ELSE IF char = ">" THEN Emit(STATE_TEXT, <<char>>, 1)
        ELSE IF char = "/" THEN Emit(STATE_ATTR_NAME, <<>>, 1)
        ELSE Emit(STATE_ATTR_NAME, <<char>>, 1)

AttrNameStep(source, index) ==
    LET char == CharAt(source, index)
    IN  IF char = "\"" THEN Emit(STATE_ATTR_VALUE_DQ, <<char>>, 1)
        ELSE IF char = "'" THEN Emit(STATE_ATTR_VALUE_Q, <<char>>, 1)
        ELSE IF char = ">" THEN Emit(STATE_TEXT, <<char>>, 1)
        ELSE Emit(STATE_ATTR_NAME, <<char>>, 1)

\* Faulty variant: a `>` inside a double-quoted value ends the tag.
AttrValueDQStep_GtEndsTag(source, index) ==
    LET char == CharAt(source, index)
    IN  IF char = "\""
        THEN IF isAttributeTerminator(NextChar(source, index))
             THEN Emit(STATE_ATTR_NAME, <<char>>, 1)
             ELSE Emit(STATE_ATTR_VALUE_DQ, ENT_QUOT, 1)
        ELSE IF char = "&"
        THEN Emit(STATE_ATTR_VALUE_DQ, AmpText(source, index), 1)
        ELSE IF char = "<" THEN Emit(STATE_ATTR_VALUE_DQ, ENT_LT, 1)
        ELSE IF char = ">" THEN Emit(STATE_TEXT, <<char>>, 1)
        ELSE Emit(STATE_ATTR_VALUE_DQ, <<char>>, 1)

\* Faulty variant: a `<` before a tag-start character starts a tag even
\* inside a double-quoted value.
AttrValueDQStep_LtStartsTag(source, index) ==
    LET char == CharAt(source, index)
    IN  IF char = "\""
        THEN IF isAttributeTerminator(NextChar(source, index))
             THEN Emit(STATE_ATTR_NAME, <<char>>, 1)
             ELSE Emit(STATE_ATTR_VALUE_DQ, ENT_QUOT, 1)
        ELSE IF char = "&"
        THEN Emit(STATE_ATTR_VALUE_DQ, AmpText(source, index), 1)
        ELSE IF char = "<"
        THEN IF IsTagStart(NextChar(source, index))
             THEN Emit(STATE_TAG_OPEN, <<char>>, 1)
             ELSE Emit(STATE_ATTR_VALUE_DQ, ENT_LT, 1)
        ELSE IF char = ">" THEN Emit(STATE_ATTR_VALUE_DQ, ENT_GT, 1)
        ELSE Emit(STATE_ATTR_VALUE_DQ, <<char>>, 1)

AttrValueDQStep(source, index) ==
    LET char == CharAt(source, index)
    IN  IF char = "\""
        THEN IF isAttributeTerminator(NextChar(source, index))
             THEN Emit(STATE_ATTR_NAME, <<char>>, 1)
             ELSE Emit(STATE_ATTR_VALUE_DQ, ENT_QUOT, 1)
        ELSE IF char = "&"
        THEN Emit(STATE_ATTR_VALUE_DQ, AmpText(source, index), 1)
        ELSE IF char = "<" THEN Emit(STATE_ATTR_VALUE_DQ, ENT_LT, 1)
        ELSE IF char = ">" THEN Emit(STATE_ATTR_VALUE_DQ, ENT_GT, 1)
        ELSE Emit(STATE_ATTR_VALUE_DQ, <<char>>, 1)

\* Faulty variant: an embedded apostrophe is copied instead of escaped.
AttrValueQStep_RawApos(source, index) ==
    LET char == CharAt(source, index)
    IN  IF char = "'"
        THEN IF isAttributeTerminator(NextChar(source, index))
             THEN Emit(STATE_ATTR_NAME, <<char>>, 1)
             ELSE Emit(STATE_ATTR_VALUE_Q, <<char>>, 1)
        ELSE IF char = "&"
        THEN Emit(STATE_ATTR_VALUE_Q, AmpText(source, index), 1)
        ELSE IF char = "<" THEN Emit(STATE_ATTR_VALUE_Q, ENT_LT, 1)
        ELSE IF char = ">" THEN Emit(STATE_ATTR_VALUE_Q, ENT_GT, 1)
        ELSE Emit(STATE_ATTR_VALUE_Q, <<char>>, 1)

\* Faulty variant: the single-quoted branch tests for either quote character.
AttrValueQStep_AnyQuote(source, index) ==
    LET char == CharAt(source, index)
    IN  IF char = "'" \/ char = "\""
        THEN IF isAttributeTerminator(NextChar(source, index))
             THEN Emit(STATE_ATTR_NAME, <<char>>, 1)
             ELSE Emit(STATE_ATTR_VALUE_Q, ENT_APOS, 1)
        ELSE IF char = "&"
        THEN Emit(STATE_ATTR_VALUE_Q, AmpText(source, index), 1)
        ELSE IF char = "<" THEN Emit(STATE_ATTR_VALUE_Q, ENT_LT, 1)
        ELSE IF char = ">" THEN Emit(STATE_ATTR_VALUE_Q, ENT_GT, 1)
        ELSE Emit(STATE_ATTR_VALUE_Q, <<char>>, 1)

AttrValueQStep(source, index) ==
    LET char == CharAt(source, index)
    IN  IF char = "'"
        THEN IF isAttributeTerminator(NextChar(source, index))
             THEN Emit(STATE_ATTR_NAME, <<char>>, 1)
             ELSE Emit(STATE_ATTR_VALUE_Q, ENT_APOS, 1)
        ELSE IF char = "&"
        THEN Emit(STATE_ATTR_VALUE_Q, AmpText(source, index), 1)
        ELSE IF char = "<" THEN Emit(STATE_ATTR_VALUE_Q, ENT_LT, 1)
        ELSE IF char = ">" THEN Emit(STATE_ATTR_VALUE_Q, ENT_GT, 1)
        ELSE Emit(STATE_ATTR_VALUE_Q, <<char>>, 1)

\* Faulty variant: the hyphens of the opener do not count for the test.
CommentStep_BodyOnly(source, index, buffer) ==
    LET char == CharAt(source, index)
    IN  IF /\ char = ">" /\ EndsWith(buffer \o <<char>>, COMMENT_CLOSE)
           /\ ~EndsWith(buffer, COMMENT_OPEN)
           /\ ~EndsWith(buffer, COMMENT_OPEN \o <<"-">>)
        THEN Emit(STATE_TEXT, <<char>>, 1)
        ELSE Emit(STATE_COMMENT, <<char>>, 1)

\* result += char; if (char === '>' && result.endsWith('-->')) state = TEXT
CommentStep(source, index, buffer) ==
    LET char == CharAt(source, index)
    IN  IF char = ">" /\ EndsWith(buffer \o <<char>>, COMMENT_CLOSE)
        THEN Emit(STATE_TEXT, <<char>>, 1)
        ELSE Emit(STATE_COMMENT, <<char>>, 1)

\* result += char; if (char === '>' && result.endsWith(']]>')) state = TEXT
CdataStep(source, index, buffer) ==
    LET char == CharAt(source, index)
    IN  IF char = ">" /\ EndsWith(buffer \o <<char>>, CDATA_CLOSE)
        THEN Emit(STATE_TEXT, <<char>>, 1)
        ELSE Emit(STATE_CDATA, <<char>>, 1)

(* The caller.  processDiagram hands sanitizeXml the trimmed content.      *)

\* content.trim(): drop the white space at both ends
RECURSIVE TrimStart(_)
TrimStart(text) ==
    IF text # <<>> /\ Head(text) \in Whitespace THEN TrimStart(Tail(text))
    ELSE text

RECURSIVE TrimEnd(_)
TrimEnd(text) ==
    IF text # <<>> /\ text[Len(text)] \in Whitespace
    THEN TrimEnd(SubSeq(text, 1, Len(text) - 1))
    ELSE text

Trim(text) == TrimEnd(TrimStart(text))

(* The contents the model feeds to the caller: every concatenation of at   *)
(* most MaxTokens tokens (MaxTokensFair where termination is checked).     *)
(* The tokens are the characters the sanitizer tells apart and the         *)
(* multi-character constructs it looks for.                                *)

MaxTokens == 3

MaxTokensFair == 2

Tokens ==
    { <<"<">>, <<">">>, <<"&">>, <<";">>, <<"\"">>, <<"'">>, <<" ">>,
      <<"a">>, <<"-">>, <<"/">>, <<"U+00E9">>,
      ENT_LT,
      <<"&", "#", "1", ";">>,
      <<"&", "#", "x", "a", ";">>,
      COMMENT_OPEN, COMMENT_CLOSE, CDATA_OPEN, CDATA_CLOSE,
      <<"<", "a", " ", "b", "=", "\"">>,
      <<"<", "a", " ", "b", "=", "'">>,
      <<"\"", ">">> }

RECURSIVE TokenStrings(_)
TokenStrings(count) ==
    IF count = 0 THEN {<<>>}
    ELSE LET shorter == TokenStrings(count - 1)
         IN  shorter \cup {s \o t : s \in shorter, t \in Tokens}

Contents == TokenStrings(MaxTokens)

ContentsFair == TokenStrings(MaxTokensFair)

(* The contents that exercise the lexical rules one by one: a fixed start  *)
(* followed by tokens, at most MaxLexTokens of them, in four families.     *)
(* The tag-start check and the openers look at what follows one `<`: that  *)
(* family, which has the most tokens, is one token shorter.                *)

MaxLexTokens == 3

RECURSIVE Strings(_, _)
Strings(tokens, count) ==
    IF count = 0 THEN {<<>>}
    ELSE LET shorter == Strings(tokens, count - 1)
         IN  shorter \cup {s \o t : s \in shorter, t \in tokens}

LexContents(count) ==
    LET DQ_TAG == <<"<", "a", " ", "b", "=", "\"">>
        Q_TAG == <<"<", "a", " ", "b", "=", "'">>
        family(starts, tokens, length) ==
            {start \o rest : start \in starts,
                             rest \in Strings(tokens, length)}
    IN  \* the tag-start check and the two openers
        family({<<>>, <<"<">>},
               { <<"<">>, <<">">>, <<"a">>, <<"Z">>, <<"1">>, <<"_">>,
                 <<":">>, <<"/">>, <<"?">>, <<"!">>, <<" ">>, <<"-">>,
                 COMMENT_OPEN, CDATA_OPEN, DQ_TAG,
                 <<"<", "a">> \o CDATA_OPEN },
               count - 1)
        \cup
        \* the entity test
        family({ENT_LT \o <<"&">>, DQ_TAG \o <<"&">>, Q_TAG \o <<"&">>},
               { <<"#">>, <<"#", "x">>, <<"a">>, <<"g">>, <<"1">>, <<"-">>,
                 <<"_">>, <<".">>, <<" ">>, <<";">> },
               count)
        \cup
        \* the attribute terminators
        family({DQ_TAG, Q_TAG},
               { <<"\"">>, <<"'">>, <<">">>, <<"/">>, <<"?">>, <<" ">>,
                 <<"\n">>, <<"a">>, <<"=">> },
               count)
        \cup
        \* the ends of comments and CDATA sections
        family({COMMENT_OPEN, CDATA_OPEN},
               { <<">">>, <<"-">>, <<"]">>, <<"a">>, <<"<">>,
                 COMMENT_CLOSE, CDATA_CLOSE, DQ_TAG \o COMMENT_OPEN },
               count)

(* The contents over the whole alphabet of the sanitizer: the characters   *)
(* it tests for, one letter, and the starts of a quoted attribute value,   *)
(* of a comment and of a CDATA section; at most MaxChars tokens.           *)

MaxChars == 3

CharContents(count) ==
    Strings({ <<"<">>, <<">">>, <<"&">>, <<";">>, <<"#">>, <<"\"">>,
              <<"'">>, <<"!">>, <<"-">>, <<"[">>, <<"]">>, <<"/">>,
              <<" ">>, <<"a">>,
              COMMENT_OPEN, CDATA_OPEN,
              <<"<", "a", " ", "b", "=", "\"">>,
              <<"<", "a", " ", "b", "=", "'">> },
            count)

(* The state machine.                                                      *)

\* no call of ConcSpec was made
ConcIdle == calls = <<>>

\* the background script has handled no event
BgIdle ==
    /\ tasks = <<>>
    /\ running = 0
    /\ tabs = <<>>
    /\ menu = <<>>
    /\ events = 0
    /\ channels = <<>>

\* the single call of sanitizeXml at rest (the other specifications)
SanIdle ==
    /\ xml = <<>>
    /\ i = 0
    /\ state = STATE_TEXT
    /\ result = <<>>
    /\ pc = "done"
    /\ hist = <<>>

\* no content script runs
ClickIdle ==
    /\ extensionContextValid = TRUE
    /\ healthCheckInterval = FALSE
    /\ runtime = "ok"
    /\ awaiting = 0
    /\ log = <<>>

PageIdle ==
    /\ site = "other"
    /\ page = [elems |-> {}]
    /\ pendingBlocks = <<>>
    /\ processedBlocks = {}
    /\ retryCount = <<>>
    /\ buttons = <<>>
    /\ timeout = FALSE
    /\ elapsed = 0
    /\ ran = 0
    /\ cleared = FALSE
    /\ records = <<>>
    /\ mutations = 0

\* what a step of the single call leaves alone
OtherIdle == UNCHANGED <<concVars, bgVars, pageVars, clickVars>>

\* let result = ''; let i = 0; let state = STATE_TEXT, on the trimmed content
Call(contents) ==
    /\ xml \in {Trim(content) : content \in contents}
    /\ i = 0
    /\ state = STATE_TEXT
    /\ result = <<>>
    /\ pc = "loop"
    /\ hist = <<>>
    /\ ConcIdle
    /\ BgIdle
    /\ PageIdle
    /\ ClickIdle

Init == Call(Contents)

InitFair == Call(ContentsFair)

LexInit == Call(LexContents(MaxLexTokens))

CharInit == Call(CharContents(MaxChars))

\* The effect of one iteration: append, move the state and the cursor.
Apply(step) ==
    /\ state' = step.state
    /\ result' = result \o step.out
    /\ i' = i + step.n
    /\ hist' = Append(hist, [i |-> i, state |-> state,
                             n |-> step.n, out |-> step.out])
    /\ UNCHANGED <<xml, pc>>
    /\ OtherIdle

\* while (i < len) in parse state s
InLoop(s) == pc = "loop" /\ i < Len(xml) /\ state = s

StepText == InLoop(STATE_TEXT) /\ Apply(TextStep(xml, i))

StepTagOpen == InLoop(STATE_TAG_OPEN) /\ Apply(TagOpenStep(xml, i))

StepTagName == InLoop(STATE_TAG_NAME) /\ Apply(TagNameStep(xml, i))

StepAttrName == InLoop(STATE_ATTR_NAME) /\ Apply(AttrNameStep(xml, i))

StepAttrValueDQ == InLoop(STATE_ATTR_VALUE_DQ) /\ Apply(AttrValueDQStep(xml, i))

StepAttrValueQ == InLoop(STATE_ATTR_VALUE_Q) /\ Apply(AttrValueQStep(xml, i))

StepComment == InLoop(STATE_COMMENT) /\ Apply(CommentStep(xml, i, result))

StepCdata == InLoop(STATE_CDATA) /\ Apply(CdataStep(xml, i, result))

\* the loop condition fails: return result
Return ==
    /\ pc = "loop"
    /\ ~(i < Len(xml))
    /\ pc' = "done"
    /\ UNCHANGED <<xml, i, state, result, hist>>
    /\ OtherIdle

Next ==
    \/ StepText
    \/ StepTagOpen
    \/ StepTagName
    \/ StepAttrName
    \/ StepAttrValueDQ
    \/ StepAttrValueQ
    \/ StepComment
    \/ StepCdata
    \/ Return

Spec == Init /\ [][Next]_vars

\* The loop is synchronous code: an iteration that can run does run.
FairSpec == InitFair /\ [][Next]_vars /\ WF_vars(Next)

\* The same loop, on the contents that exercise the lexical rules.
LexSpec == LexInit /\ [][Next]_vars

\* The same loop, on the contents over the whole alphabet.
CharSpec == CharInit /\ [][Next]_vars

(* sanitizeXml as a function of its argument: the loop, run to its end.    *)

StepOf(source, index, st, buffer) ==
    CASE st = STATE_TEXT -> TextStep(source, index)
      [] st = STATE_TAG_OPEN -> TagOpenStep(source, index)
      [] st = STATE_TAG_NAME -> TagNameStep(source, index)
      [] st = STATE_ATTR_NAME -> AttrNameStep(source, index)
      [] st = STATE_ATTR_VALUE_DQ -> AttrValueDQStep(source, index)
      [] st = STATE_ATTR_VALUE_Q -> AttrValueQStep(source, index)
      [] st = STATE_COMMENT -> CommentStep(source, index, buffer)
      [] st = STATE_CDATA -> CdataStep(source, index, buffer)

RECURSIVE Scan(_, _, _, _)
Scan(source, index, st, buffer) ==
    IF index < Len(source)
    THEN LET step == StepOf(source, index, st, buffer)
         IN  Scan(source, index + step.n, step.state, buffer \o step.out)
    ELSE buffer

sanitizeXml(source) == Scan(source, 0, STATE_TEXT, <<>>)

(* The copy of the sanitizer in test_sanitize.js.  It differs from the     *)
(* background script's in its COMMENT branch alone.                        *)

\* Faulty variant: the input is tested one character too early.
TestCommentStep_OffByOne(source, index, buffer) ==
    LET char == CharAt(source, index)
    IN  IF /\ StartsWith(source, COMMENT_CLOSE,
                         IF index - 3 < 0 THEN 0 ELSE index - 3)
           /\ char = ">" /\ EndsWith(buffer \o <<char>>, COMMENT_CLOSE)
        THEN Emit(STATE_TEXT, <<char>>, 1)
        ELSE Emit(STATE_COMMENT, <<char>>, 1)

\* result += char; if (xml.startsWith('-->', i - 2)) { if (char === '>' &&
\* result.endsWith('-->')) state = STATE_TEXT } (a negative position is 0)
TestCommentStep(source, index, buffer) ==
    LET char == CharAt(source, index)
    IN  IF /\ StartsWith(source, COMMENT_CLOSE,
                         IF index - 2 < 0 THEN 0 ELSE index - 2)
           /\ char = ">" /\ EndsWith(buffer \o <<char>>, COMMENT_CLOSE)
        THEN Emit(STATE_TEXT, <<char>>, 1)
        ELSE Emit(STATE_COMMENT, <<char>>, 1)

\* the loop of the copy, run to its end: its result and the states it
\* passed through, the last one included
RECURSIVE TestScan(_, _, _, _, _)
TestScan(source, index, st, buffer, passed) ==
    IF index < Len(source)
    THEN LET step == IF st = STATE_COMMENT
                     THEN TestCommentStep(source, index, buffer)
                     ELSE StepOf(source, index, st, buffer)
         IN  TestScan(source, index + step.n, step.state,
                      buffer \o step.out, Append(passed, st))
    ELSE [result |-> buffer, states |-> Append(passed, st)]

testSanitizeXml(source) == TestScan(source, 0, STATE_TEXT, <<>>, <<>>)

(* Vocabulary of the properties.                                           *)

\* the character read by iteration k, and the parse state after it
CharRead(k) == xml[hist[k].i + 1]

StateAfter(k) == IF k < Len(hist) THEN hist[k + 1].state ELSE state

\* the texts appended by iterations from..to, in order
RECURSIVE OutOf(_, _)
OutOf(from, to) ==
    IF from > to THEN <<>> ELSE hist[from].out \o OutOf(from + 1, to)

\* An entity reference: `&`, then a name (a letter followed by one or more
\* letters or digits) or `#` and decimal digits or `#x` and hex digits,
\* then `;`.  RefEnd is the 0-based index of that `;`, or -1 when no
\* reference starts at index p of text.
RefName(body) ==
    /\ Len(body) >= 2
    /\ body[1] \in Letters
    /\ \A k \in 2..Len(body) : body[k] \in Letters \cup Digits

RefDecimal(body) ==
    /\ Len(body) >= 2
    /\ body[1] = "#"
    /\ \A k \in 2..Len(body) : body[k] \in Digits

RefHex(body) ==
    /\ Len(body) >= 3
    /\ body[1] = "#" /\ body[2] = "x"
    /\ \A k \in 3..Len(body) : body[k] \in HexDigits

RefEnd(text, p) ==
    LET ends == {s \in (p + 1)..(Len(text) - 1) :
                    /\ text[s + 1] = ";"
                    /\ LET body == SubSeq(text, p + 2, s)
                       IN  RefName(body) \/ RefDecimal(body) \/ RefHex(body)}
    IN  IF p < Len(text) /\ text[p + 1] = "&" /\ ends # {}
        THEN CHOOSE s \in ends : TRUE
        ELSE -1

StartsRef(text, p) == RefEnd(text, p) # -1

AttrValueStates == {STATE_ATTR_VALUE_DQ, STATE_ATTR_VALUE_Q}

(* C1: sanitizeXml is total.  The cursor never passes the input length,    *)
(* every iteration moves it strictly forward, some branch of the loop      *)
(* applies in every state the loop can be in, and the call reaches its     *)
(* return, whatever the input (empty, or ending inside a tag, a quoted     *)
(* value, a comment or a CDATA section).                                   *)
C1_Total ==
    /\ [](i <= Len(xml) /\ state \in States)
    /\ [][pc = "loop" /\ pc' = "loop" => i' > i]_vars
    /\ <>(pc = "done")

\* a call that returned although the input ended inside a CDATA section
C1_Witness ==
    /\ pc = "done"
    /\ state = STATE_CDATA
    /\ i = Len(xml)
    /\ Len(hist) > 1

(* C2: no double-escaping.  In a finished call, the iteration that read    *)
(* the `&` of an entity reference, in whichever state, appended `&` alone, *)
(* and the iterations after it copied the rest of the reference, up to its *)
(* `;`, character by character.                                            *)
C2_NoDoubleEscaping ==
    pc = "done" =>
        \A k \in DOMAIN hist :
            LET p == hist[k].i
                e == RefEnd(xml, p)
            IN  e # -1 =>
                  /\ hist[k].out = <<"&">>
                  /\ \A j \in 1..(e - p) :
                        /\ k + j \in DOMAIN hist
                        /\ hist[k + j].i = p + j
                        /\ hist[k + j].out = <<xml[p + j + 1]>>

\* a hex reference read inside a quoted attribute value, wholly copied
C2_Witness ==
    \E k \in DOMAIN hist :
        /\ hist[k].state \in AttrValueStates
        /\ StartsRef(xml, hist[k].i)
        /\ xml[hist[k].i + 3] = "x"
        /\ pc = "done"

\* The characters after which `<` opens a tag, and the characters after
\* which a quote closes an attribute value (so does the end of the input).
TagStartChars == Letters \cup Digits \cup {"_", ":", "/", "?", "!"}

TerminatorChars == {">", "/", "?"} \cup Whitespace

\* a `<` at index p that opens nothing: no tag-start character follows
BareLt(text, p) ==
    /\ text[p + 1] = "<"
    /\ p + 1 < Len(text) => text[p + 2] \notin TagStartChars

\* an `&` at index p that starts no entity reference
BareAmp(text, p) == text[p + 1] = "&" /\ ~StartsRef(text, p)

\* a quote at index p that is followed by a character other than a terminator
EmbeddedQuote(text, p, quote) ==
    /\ text[p + 1] = quote
    /\ p + 1 < Len(text)
    /\ text[p + 2] \notin TerminatorChars

(* C4: content escaping.  In a finished call, every iteration in TEXT      *)
(* state that read a bare `<`, a `>` or a bare `&` appended `&lt;`,        *)
(* `&gt;`, `&amp;` and stayed in TEXT; the output is the texts appended,   *)
(* in order.                                                               *)
C4_ContentEscaping ==
    pc = "done" =>
        /\ result = OutOf(1, Len(hist))
        /\ \A k \in DOMAIN hist :
              hist[k].state = STATE_TEXT =>
                /\ BareLt(xml, hist[k].i) =>
                      hist[k].out = ENT_LT /\ StateAfter(k) = STATE_TEXT
                /\ CharRead(k) = ">" =>
                      hist[k].out = ENT_GT /\ StateAfter(k) = STATE_TEXT
                /\ BareAmp(xml, hist[k].i) =>
                      hist[k].out = ENT_AMP /\ StateAfter(k) = STATE_TEXT

\* one call that met a bare `<`, a `>` and a bare `&` in text
C4_Witness ==
    /\ pc = "done"
    /\ \E k \in DOMAIN hist :
          hist[k].state = STATE_TEXT /\ BareLt(xml, hist[k].i)
    /\ \E k \in DOMAIN hist :
          hist[k].state = STATE_TEXT /\ CharRead(k) = ">"
    /\ \E k \in DOMAIN hist :
          hist[k].state = STATE_TEXT /\ BareAmp(xml, hist[k].i)

(* C5: in a finished call, every iteration inside a quoted attribute value *)
(* appended `&lt;` for `<`, `&gt;` for `>` and `&amp;` for a bare `&`, and *)
(* none of the three left the attribute-value state: a `>` there never     *)
(* ends the tag.                                                           *)
C5_AttrValueEscaping ==
    pc = "done" =>
        \A k \in DOMAIN hist :
            hist[k].state \in AttrValueStates =>
              /\ CharRead(k) = "<" => hist[k].out = ENT_LT
              /\ CharRead(k) = ">" => hist[k].out = ENT_GT
              /\ BareAmp(xml, hist[k].i) => hist[k].out = ENT_AMP
              /\ CharRead(k) \in {"<", ">", "&"} =>
                    StateAfter(k) = hist[k].state

\* a `>` read inside a double-quoted value, with input left after it
C5_Witness ==
    /\ pc = "done"
    /\ \E k \in DOMAIN hist :
          /\ hist[k].state = STATE_ATTR_VALUE_DQ
          /\ CharRead(k) = ">"
          /\ k < Len(hist)

(* C6: attribute escaping.  In a finished call, an embedded quote of the   *)
(* value's own style was appended as `&quot;` (double-quoted) or `&apos;`  *)
(* (single-quoted) and the value stayed open; a value was left only at a   *)
(* quote of its own style followed by a terminator or the end of input.    *)
C6_AttrQuoteEscaping ==
    pc = "done" =>
        \A k \in DOMAIN hist :
            /\ (hist[k].state = STATE_ATTR_VALUE_DQ
                   /\ EmbeddedQuote(xml, hist[k].i, "\"")) =>
                  /\ hist[k].out = ENT_QUOT
                  /\ StateAfter(k) = STATE_ATTR_VALUE_DQ
            /\ (hist[k].state = STATE_ATTR_VALUE_Q
                   /\ EmbeddedQuote(xml, hist[k].i, "'")) =>
                  /\ hist[k].out = ENT_APOS
                  /\ StateAfter(k) = STATE_ATTR_VALUE_Q
            /\ (hist[k].state \in AttrValueStates
                   /\ StateAfter(k) # hist[k].state) =>
                  /\ CharRead(k) = (IF hist[k].state = STATE_ATTR_VALUE_DQ
                                    THEN "\"" ELSE "'")
                  /\ ~EmbeddedQuote(xml, hist[k].i, CharRead(k))
                  /\ hist[k].out = <<CharRead(k)>>
                  /\ StateAfter(k) = STATE_ATTR_NAME

\* a single-quoted value with an embedded apostrophe, closed later
C6_Witness ==
    /\ pc = "done"
    /\ \E k, m \in DOMAIN hist :
          /\ k < m
          /\ hist[k].state = STATE_ATTR_VALUE_Q
          /\ EmbeddedQuote(xml, hist[k].i, "'")
          /\ hist[m].state = STATE_ATTR_VALUE_Q
          /\ StateAfter(m) = STATE_ATTR_NAME

(* C7: in a finished call, a quote of the other style read inside an       *)
(* attribute value was appended unchanged and left the state as it was,    *)
(* whatever followed it.                                                   *)
C7_OtherQuoteUnchanged ==
    pc = "done" =>
        \A k \in DOMAIN hist :
            (\/ hist[k].state = STATE_ATTR_VALUE_DQ /\ CharRead(k) = "'"
             \/ hist[k].state = STATE_ATTR_VALUE_Q /\ CharRead(k) = "\"") =>
                /\ hist[k].out = <<CharRead(k)>>
                /\ StateAfter(k) = hist[k].state

\* a double quote inside a single-quoted value, followed by a terminator
C7_Witness ==
    /\ pc = "done"
    /\ \E k \in DOMAIN hist :
          /\ hist[k].state = STATE_ATTR_VALUE_Q
          /\ CharRead(k) = "\""
          /\ hist[k].i + 1 < Len(xml)
          /\ xml[hist[k].i + 2] \in TerminatorChars

(* C9: monotonic length.  Every iteration appends at least as many         *)
(* characters as it consumes, so after every iteration the output buffer   *)
(* is at least as long as the cursor position, and the output is at least  *)
(* as long as the input.                                                   *)
C9_MonotonicLength ==
    /\ Len(result) >= i
    /\ hist # <<>> => Len(hist[Len(hist)].out) >= hist[Len(hist)].n
    /\ pc = "done" => Len(result) >= Len(xml)

\* a finished call that skipped a comment opener and grew the text
C9_Witness ==
    /\ pc = "done"
    /\ Len(result) > Len(xml)
    /\ \E k \in DOMAIN hist : hist[k].n = CommentSkip

(* Well-formed tags, after the XML grammar: start tags `<name attr="v">`,  *)
(* empty-element tags `<name/>` and end tags `</name>`; attributes are     *)
(* separated by white space and quoted; a name starts with a letter, `_`,  *)
(* `:` or a letter outside ASCII.  WfNext is the recogniser's transition   *)
(* at index p; startChars are the characters a start-tag name may begin    *)
(* with.  Text and attribute values hold no raw `<`, `>` or `&`.           *)

\* (the letter e with acute accent, written by its code point)
NonAsciiLetters == {"U+00E9"}

NameStartChars == Letters \cup {"_", ":"} \cup NonAsciiLetters

AsciiNameStartChars == Letters \cup {"_", ":"}

NameChars == NameStartChars \cup Digits \cup {"-", "."}

WfValue(text, p, q, quote) ==
    LET c == text[p + 1]
    IN  IF c = quote THEN "aval"
        ELSE IF c \in {"<", ">"} THEN "bad"
        ELSE IF c = "&" /\ ~StartsRef(text, p) THEN "bad"
        ELSE q

WfNext(text, p, q, startChars) ==
    LET c == text[p + 1]
    IN  CASE q = "text" ->
               IF c = "<" THEN "lt"
               ELSE IF c = ">" THEN "bad"
               ELSE IF c = "&" /\ ~StartsRef(text, p) THEN "bad"
               ELSE "text"
          [] q = "lt" ->
               IF c \in startChars THEN "name"
               ELSE IF c = "/" THEN "etag"
               ELSE "bad"
          [] q = "etag" -> IF c \in NameStartChars THEN "ename" ELSE "bad"
          [] q = "ename" ->
               IF c \in NameChars THEN "ename"
               ELSE IF c \in Whitespace THEN "espace"
               ELSE IF c = ">" THEN "text"
               ELSE "bad"
          [] q = "espace" ->
               IF c \in Whitespace THEN "espace"
               ELSE IF c = ">" THEN "text"
               ELSE "bad"
          [] q = "name" ->
               IF c \in NameChars THEN "name"
               ELSE IF c \in Whitespace THEN "attrs"
               ELSE IF c = "/" THEN "empty"
               ELSE IF c = ">" THEN "text"
               ELSE "bad"
          [] q \in {"attrs", "aval"} ->
               IF c \in Whitespace THEN "attrs"
               ELSE IF c = "/" THEN "empty"
               ELSE IF c = ">" THEN "text"
               ELSE IF q = "attrs" /\ c \in NameStartChars THEN "aname"
               ELSE "bad"
          [] q = "aname" ->
               IF c \in NameChars THEN "aname"
               ELSE IF c \in Whitespace THEN "aspace"
               ELSE IF c = "=" THEN "eq"
               ELSE "bad"
          [] q = "aspace" ->
               IF c \in Whitespace THEN "aspace"
               ELSE IF c = "=" THEN "eq"
               ELSE "bad"
          [] q = "eq" ->
               IF c \in Whitespace THEN "eq"
               ELSE IF c = "\"" THEN "dq"
               ELSE IF c = "'" THEN "sq"
               ELSE "bad"
          [] q = "dq" -> WfValue(text, p, q, "\"")
          [] q = "sq" -> WfValue(text, p, q, "'")
          [] q = "empty" -> IF c = ">" THEN "text" ELSE "bad"
          [] OTHER -> "bad"

RECURSIVE WfScan(_, _, _, _)
WfScan(text, p, q, startChars) ==
    IF p < Len(text)
    THEN WfScan(text, p + 1, WfNext(text, p, q, startChars), startChars)
    ELSE q

\* only entity references and well-formed tags
WellFormed(text) == WfScan(text, 0, "text", NameStartChars) = "text"

\* the same, every start-tag name beginning with an ASCII letter, `_` or `:`
WellFormedAscii(text) == WfScan(text, 0, "text", AsciiNameStartChars) = "text"

(* C3 as stated: a text of entity references and well-formed tags is a     *)
(* fixed point of sanitizeXml, which is therefore idempotent on it.        *)
C3_FixedPoint ==
    (pc = "done" /\ WellFormed(xml)) =>
        result = xml /\ sanitizeXml(result) = result

(* C3 as amended: a text of entity references and well-formed tags whose   *)
(* start-tag names begin with an ASCII letter, `_` or `:` is a fixed point *)
(* of sanitizeXml, which is therefore idempotent on it.                    *)
C3_FixedPointAscii ==
    (pc = "done" /\ WellFormedAscii(xml)) =>
        result = xml /\ sanitizeXml(result) = result

\* a finished call on a start tag whose quoted value holds a reference
C3_Witness ==
    /\ pc = "done"
    /\ WellFormedAscii(xml)
    /\ state = STATE_TEXT
    /\ \E k \in DOMAIN hist :
          hist[k].state \in AttrValueStates /\ StartsRef(xml, hist[k].i)

(* Well-formed comments and CDATA sections: the opener at index p, the     *)
(* terminator at index s after it, and between them no `--` (comment) or   *)
(* no `]]>` (CDATA).                                                       *)
WfComment(text, p, s) ==
    /\ StartsWith(text, COMMENT_OPEN, p)
    /\ s >= p + Len(COMMENT_OPEN)
    /\ StartsWith(text, COMMENT_CLOSE, s)
    /\ \A j \in (p + Len(COMMENT_OPEN))..(s - 1) :
          ~StartsWith(text, <<"-", "-">>, j)

WfCdata(text, p, s) ==
    /\ StartsWith(text, CDATA_OPEN, p)
    /\ s >= p + Len(CDATA_OPEN)
    /\ StartsWith(text, CDATA_CLOSE, s)
    /\ \A j \in (p + Len(CDATA_OPEN))..(s - 1) :
          ~StartsWith(text, CDATA_CLOSE, j)

\* the iterations from k on copy xml[p .. last] as it is and end in TEXT
CopiedVerbatim(k, last) ==
    \E m \in k..Len(hist) :
        /\ hist[m].i + hist[m].n = last + 1
        /\ OutOf(k, m) = SubSeq(xml, hist[k].i + 1, last + 1)
        /\ StateAfter(m) = STATE_TEXT

(* C8: pass-through of structural syntax.  In a finished call, a           *)
(* well-formed comment or CDATA section that started in text content was   *)
(* copied to the output as it is, whatever it holds, and the text after it *)
(* was read in TEXT state.                                                 *)
C8_PassThrough ==
    pc = "done" =>
        \A k \in DOMAIN hist : \A s \in 0..(Len(xml) - 3) :
            (/\ hist[k].state = STATE_TEXT
             /\ \/ WfComment(xml, hist[k].i, s)
                \/ WfCdata(xml, hist[k].i, s)) =>
                CopiedVerbatim(k, s + 2)

\* the state each character of the output was appended in
RECURSIVE OriginOf(_)
OriginOf(k) ==
    IF k > Len(hist) THEN <<>>
    ELSE [j \in 1..Len(hist[k].out) |-> hist[k].state] \o OriginOf(k + 1)

QuotedOrText == {STATE_TEXT, STATE_ATTR_VALUE_DQ, STATE_ATTR_VALUE_Q}

InsideTag == {STATE_TAG_OPEN, STATE_TAG_NAME, STATE_ATTR_NAME}

(* C10 as stated: the output holds no bare ampersand.  Every `&` of the    *)
(* output outside comments and CDATA sections starts an entity reference.  *)
C10_NoBareAmpersand ==
    pc = "done" =>
        LET origin == OriginOf(1)
        IN  \A q \in DOMAIN result :
                (/\ result[q] = "&"
                 /\ origin[q] \notin {STATE_COMMENT, STATE_CDATA}) =>
                    StartsRef(result, q - 1)

(* C10 as amended: every `&` of the output that was appended in TEXT state *)
(* or inside a quoted attribute value starts an entity reference; an `&`   *)
(* read inside a tag outside a quoted value (tag name, attribute name,     *)
(* unquoted value) is copied as it is.                                     *)
C10_NoBareAmpersandInContent ==
    pc = "done" =>
        LET origin == OriginOf(1)
        IN  /\ \A q \in DOMAIN result :
                  (result[q] = "&" /\ origin[q] \in QuotedOrText) =>
                      StartsRef(result, q - 1)
            /\ \A k \in DOMAIN hist :
                  (hist[k].state \in InsideTag /\ CharRead(k) = "&") =>
                      hist[k].out = <<"&">>

\* a finished call that escaped a bare `&` inside a quoted value
C10_Witness ==
    /\ pc = "done"
    /\ \E k \in DOMAIN hist :
          hist[k].state \in AttrValueStates /\ BareAmp(xml, hist[k].i)

(* Several calls of sanitizeXml in progress at once.  Every call has its   *)
(* own copy of the locals declared by `let result`, `let i`, `let state`   *)
(* and its own argument; a scheduler runs one loop iteration of any call   *)
(* in progress, so calls run one after the other as well as interleaved.   *)

MaxCalls == 2

\* arguments that between them drive a call through every parse state
ConcInputs ==
    { <<"a", "&", "<">>,
      <<"<", "a", " ", "b", "=", "'", "\"", "'", ">">>,
      <<"<", "a", " ", "b", "=", "\"", "<", "\"", ">">>,
      COMMENT_OPEN \o <<">">> \o COMMENT_CLOSE,
      CDATA_OPEN \o <<"&">> \o CDATA_CLOSE \o <<"&">> }

\* is another call than c inside its loop, having run at least one iteration?
OtherInProgress(c) ==
    \E d \in DOMAIN calls : d # c /\ calls[d].pc = "loop" /\ calls[d].i > 0

ConcInit == ConcIdle /\ SanIdle /\ BgIdle /\ PageIdle /\ ClickIdle

\* sanitizeXml(input) is entered: fresh locals
Invoke(input) ==
    /\ Len(calls) < MaxCalls
    /\ calls' = Append(calls, [xml |-> input, i |-> 0, state |-> STATE_TEXT,
                               result |-> <<>>, pc |-> "loop",
                               interleaved |-> FALSE])
    /\ UNCHANGED <<sanVars, bgVars, pageVars, clickVars>>

\* Faulty variant: the output buffer is one variable shared by all calls.
StoreLocals_SharedBuffer(c, step) ==
    calls' = [d \in DOMAIN calls |->
                IF d = c
                THEN [calls[c] EXCEPT !.state = step.state,
                                      !.result = @ \o step.out,
                                      !.i = @ + step.n,
                                      !.interleaved = @ \/ OtherInProgress(c)]
                ELSE [calls[d] EXCEPT !.result = @ \o step.out]]

\* an iteration of call c assigns to the locals of call c only
StoreLocals(c, step) ==
    calls' = [calls EXCEPT ![c] =
                [@ EXCEPT !.state = step.state,
                          !.result = @ \o step.out,
                          !.i = @ + step.n,
                          !.interleaved = @ \/ OtherInProgress(c)]]

\* one iteration of the loop of call c
StepCall(c) ==
    /\ calls[c].pc = "loop"
    /\ calls[c].i < Len(calls[c].xml)
    /\ StoreLocals(c, StepOf(calls[c].xml, calls[c].i,
                             calls[c].state, calls[c].result))
    /\ UNCHANGED <<sanVars, bgVars, pageVars, clickVars>>

\* call c leaves its loop and returns its result
ReturnCall(c) ==
    /\ calls[c].pc = "loop"
    /\ ~(calls[c].i < Len(calls[c].xml))
    /\ calls' = [calls EXCEPT ![c].pc = "done"]
    /\ UNCHANGED <<sanVars, bgVars, pageVars, clickVars>>

ConcNext ==
    \/ \E input \in ConcInputs : Invoke(input)
    \/ \E c \in DOMAIN calls : StepCall(c)
    \/ \E c \in DOMAIN calls : ReturnCall(c)

ConcSpec == ConcInit /\ [][ConcNext]_vars

(* C11: sanitizeXml is a pure, deterministic function.  Every call that    *)
(* returned, whatever calls were made before it and however its iterations *)
(* were interleaved with those of other calls, returned what sanitizeXml   *)
(* returns for its argument when run alone; so two calls with the same     *)
(* argument returned the same output, and no call changed its argument.    *)
C11_PureFunction ==
    /\ \A c \in DOMAIN calls :
          calls[c].pc = "done" => calls[c].result = sanitizeXml(calls[c].xml)
    /\ \A c, d \in DOMAIN calls :
          (/\ calls[c].pc = "done"
           /\ calls[d].pc = "done"
           /\ calls[c].xml = calls[d].xml) => calls[c].result = calls[d].result
    /\ \A c \in DOMAIN calls : calls[c].xml \in ConcInputs

\* two returned calls on different arguments whose iterations interleaved
C11_Witness ==
    \E c, d \in DOMAIN calls :
        /\ calls[c].xml # calls[d].xml
        /\ calls[c].pc = "done" /\ calls[c].interleaved
        /\ calls[d].pc = "done" /\ calls[d].interleaved

(* The background script and the content-script listener that answers it. *)
(* A type is "xml" or "mermaid"; NoType is the null returned when nothing  *)
(* was detected, Undefined the value of a property that is not there.      *)
(* An element is known by the classes of itself and of its closest PRE;    *)
(* a call without element is a call with an element without classes.       *)

NoType == "null"

Undefined == <<"undefined">>

\* !value, for a text
Falsy(value) == value = <<>> \/ value = Undefined

\* a || b
OrElse(a, b) == IF Falsy(a) THEN b ELSE a

\* type || 'xml'
TypeOrXml(type) == IF type = NoType THEN "xml" ELSE type

\* text.includes(part)
Includes(text, part) ==
    \E p \in 0..(Len(text) - Len(part)) : StartsWith(text, part, p)

MermaidKeywords ==
    { <<"g", "r", "a", "p", "h">>,
      <<"f", "l", "o", "w", "c", "h", "a", "r", "t">>,
      <<"s", "e", "q", "u", "e", "n", "c", "e", "D", "i", "a", "g", "r", "a", "m">>,
      <<"c", "l", "a", "s", "s", "D", "i", "a", "g", "r", "a", "m">>,
      <<"s", "t", "a", "t", "e", "D", "i", "a", "g", "r", "a", "m">>,
      <<"e", "r", "D", "i", "a", "g", "r", "a", "m">>,
      <<"g", "a", "n", "t", "t">>,
      <<"p", "i", "e">>,
      <<"g", "i", "t", "G", "r", "a", "p", "h">> }

\* /^\s*(graph|flowchart|...|gitGraph)/.test(text)
HasMermaidKeyword(text) ==
    \E keyword \in MermaidKeywords : StartsWith(TrimStart(text), keyword, 0)

MX_FILE == <<"m", "x", "f", "i", "l", "e">>
MX_GRAPH_MODEL == <<"m", "x", "G", "r", "a", "p", "h", "M", "o", "d", "e", "l">>
MX_FILE_END == <<"<", "/">> \o MX_FILE \o <<">">>
MX_GRAPH_MODEL_END == <<"<", "/">> \o MX_GRAPH_MODEL \o <<">">>

\* Faulty variant: the keyword is looked for anywhere in the text.
detectTypeFromText_KeywordAnywhere(text) ==
    IF Falsy(text) THEN "xml"
    ELSE IF \E keyword \in MermaidKeywords : Includes(text, keyword)
    THEN "mermaid"
    ELSE "xml"

\* background script: the type of a selection text
detectTypeFromText(text) ==
    IF Falsy(text) THEN "xml"
    ELSE IF HasMermaidKeyword(text) THEN "mermaid"
    ELSE IF Includes(text, MX_FILE_END) \/ Includes(text, MX_GRAPH_MODEL_END)
    THEN "xml"
    ELSE "xml"

MermaidClasses == {"language-mermaid", "mermaid"}

XmlClasses == {"language-xml", "xml"}

\* content script: the type of a code block, or null
detectDiagramType(text, element) ==
    IF Falsy(text) \/ Len(text) < 10 THEN NoType
    ELSE IF element.classes \cap MermaidClasses # {} THEN "mermaid"
    ELSE IF element.preClasses \cap MermaidClasses # {} THEN "mermaid"
    ELSE IF HasMermaidKeyword(text) THEN "mermaid"
    ELSE IF /\ element.classes \cap XmlClasses # {}
            /\ Includes(text, MX_GRAPH_MODEL) \/ Includes(text, MX_FILE)
    THEN "xml"
    ELSE IF /\ element.preClasses \cap XmlClasses # {}
            /\ Includes(text, MX_GRAPH_MODEL) \/ Includes(text, MX_FILE)
    THEN "xml"
    ELSE IF Includes(text, MX_FILE_END) \/ Includes(text, MX_GRAPH_MODEL_END)
    THEN "xml"
    ELSE NoType

\* detectDiagramType(content): no element
NoElement == [classes |-> {}, preClasses |-> {}]

(* JSON.stringify and encodeURIComponent, on the characters of the model.  *)

\* the text of one character inside a JSON string
JsonChar(ch) ==
    CASE ch = "\"" -> <<"\\", "\"">>
      [] ch = "\\" -> <<"\\", "\\">>
      [] ch = "\n" -> <<"\\", "n">>
      [] ch = "\t" -> <<"\\", "t">>
      [] ch = "\r" -> <<"\\", "r">>
      [] ch = "\f" -> <<"\\", "f">>
      [] OTHER -> <<ch>>

RECURSIVE JsonString(_)
JsonString(text) ==
    IF text = <<>> THEN <<>> ELSE JsonChar(Head(text)) \o JsonString(Tail(text))

\* JSON.stringify({ type: 'mermaid', data: content })
JsonStringify(config) ==
    <<"{", "\"", "t", "y", "p", "e", "\"", ":", "\"",
      "m", "e", "r", "m", "a", "i", "d", "\"", ",",
      "\"", "d", "a", "t", "a", "\"", ":", "\"">>
        \o JsonString(config.data) \o <<"\"", "}">>

\* the characters encodeURIComponent leaves as they are
Unreserved ==
    Letters \cup Digits \cup {"-", "_", ".", "!", "~", "*", "'", "(", ")"}

\* the UTF-8 bytes of a character, as two hex digits each
Utf8Hex(ch) ==
    CASE ch = "\t" -> <<<<"0", "9">>>>
      [] ch = "\n" -> <<<<"0", "A">>>>
      [] ch = "\f" -> <<<<"0", "C">>>>
      [] ch = "\r" -> <<<<"0", "D">>>>
      [] ch = " " -> <<<<"2", "0">>>>
      [] ch = "\"" -> <<<<"2", "2">>>>
      [] ch = "&" -> <<<<"2", "6">>>>
      [] ch = "," -> <<<<"2", "C">>>>
      [] ch = "/" -> <<<<"2", "F">>>>
      [] ch = ":" -> <<<<"3", "A">>>>
      [] ch = ";" -> <<<<"3", "B">>>>
      [] ch = "<" -> <<<<"3", "C">>>>
      [] ch = "=" -> <<<<"3", "D">>>>
      [] ch = ">" -> <<<<"3", "E">>>>
      [] ch = "\\" -> <<<<"5", "C">>>>
      [] ch = "{" -> <<<<"7", "B">>>>
      [] ch = "}" -> <<<<"7", "D">>>>
      [] ch = "U+00E9" -> <<<<"C", "3">>, <<"A", "9">>>>

RECURSIVE PercentBytes(_)
PercentBytes(bytes) ==
    IF bytes = <<>> THEN <<>>
    ELSE <<"%">> \o Head(bytes) \o PercentBytes(Tail(bytes))

RECURSIVE encodeURIComponent(_)
encodeURIComponent(text) ==
    IF text = <<>> THEN <<>>
    ELSE (IF Head(text) \in Unreserved THEN <<Head(text)>>
          ELSE PercentBytes(Utf8Hex(Head(text))))
            \o encodeURIComponent(Tail(text))

(* arrayBufferToBase64: the bytes become a binary string, btoa encodes     *)
(* three bytes as four characters and pads the last group with `=`.        *)

B64Alphabet ==
    <<"A", "B", "C", "D", "E", "F", "G", "H", "I", "J", "K", "L", "M",
      "N", "O", "P", "Q", "R", "S", "T", "U", "V", "W", "X", "Y", "Z",
      "a", "b", "c", "d", "e", "f", "g", "h", "i", "j", "k", "l", "m",
      "n", "o", "p", "q", "r", "s", "t", "u", "v", "w", "x", "y", "z",
      "0", "1", "2", "3", "4", "5", "6", "7", "8", "9", "+", "/">>

\* btoa of one group of one to three bytes
Btoa3(group) ==
    LET byte(k) == IF k <= Len(group) THEN group[k] ELSE 0
        bits == byte(1) * 65536 + byte(2) * 256 + byte(3)
        sextet(k) == B64Alphabet[((bits \div (64 ^ (4 - k))) % 64) + 1]
    IN  <<sextet(1), sextet(2),
          IF Len(group) >= 2 THEN sextet(3) ELSE "=",
          IF Len(group) >= 3 THEN sextet(4) ELSE "=">>

RECURSIVE arrayBufferToBase64(_)
arrayBufferToBase64(buffer) ==
    IF buffer = <<>> THEN <<>>
    ELSE IF Len(buffer) <= 3 THEN Btoa3(buffer)
    ELSE Btoa3(SubSeq(buffer, 1, 3))
            \o arrayBufferToBase64(SubSeq(buffer, 4, Len(buffer)))

\* the two URL prefixes, each written as one element of the URL
XML_URL == <<"https://app.diagrams.net/#R">>

MERMAID_URL == <<"https://app.diagrams.net/?create=">>

(* The events of the background script.  A handler runs to its end before  *)
(* the next event is handled; a call of processDiagram runs until it       *)
(* returns or awaits compressData, and goes on when the promise settles.   *)

MaxEvents == 2

\* the texts a page can hold: a Mermaid diagram, a Draw.io file with white
\* space before it, a short text, no text
BgTexts ==
    { <<" ", "g", "r", "a", "p", "h", " ", "T", "D", ";", "\n",
        "A", "-", "-", ">", "B">>,
      <<" ", "<", "a", " ", "b", "=", "\"", "<", "\"", ">",
        "<", "/", "m", "x", "f", "i", "l", "e", ">">>,
      <<"a", "<", "b">>,
      <<>> }

\* the code blocks a page can hold
Elements ==
    { [classes |-> c, preClasses |-> p] :
        c \in {{}, {"language-mermaid"}, {"language-xml"}},
        p \in {{}, {"mermaid"}, {"xml"}} }

\* the types a button can carry: createButton is called with a detected type
ButtonTypes ==
    {detectDiagramType(text, element) :
        text \in BgTexts, element \in Elements} \ {NoType}

\* content script, click on a button: chrome.runtime.sendMessage({...})
ButtonMessages ==
    { [action |-> "open_drawio", content |-> content, type |-> type,
       xml |-> Undefined] : content \in BgTexts, type \in ButtonTypes }

\* any other message that reaches the background script
OtherMessages ==
    { [action |-> "other", content |-> Undefined, type |-> NoType,
       xml |-> Undefined] }

\* what the page holds when get_selection_context arrives: the selected
\* text, whether the selection lies in a PRE, and then the text and the
\* element (CODE child or PRE) of that block
Selections ==
    { [text |-> text, inPre |-> inPre, fullText |-> fullText,
       element |-> element] :
        text \in BgTexts, inPre \in BOOLEAN,
        fullText \in BgTexts, element \in Elements }

\* content script, the get_selection_context listener: its response
selectionContext(selection) ==
    IF selection.inPre
    THEN [content |-> selection.fullText,
          type |-> detectDiagramType(selection.fullText, selection.element)]
    ELSE [content |-> selection.text,
          type |-> detectDiagramType(selection.text, NoElement)]

\* the responses the content script can give
Responses == {selectionContext(selection) : selection \in Selections}

\* the outputs of the platform's deflate-raw stream (two and three bytes)
DeflateOutputs == { <<3, 0>>, <<75, 4, 0>> }

\* processDiagram(content, type) is called and starts to run; source and
\* detected record where the call came from and the type detected there
processDiagram(source, detected, content, type) ==
    /\ tasks' = Append(tasks, [source |-> source, detected |-> detected,
                               content |-> content, type |-> type,
                               pc |-> "entry", xml |-> <<>>,
                               sanitizedXml |-> <<>>, compressed |-> <<>>,
                               base64 |-> <<>>, url |-> <<>>,
                               trace |-> <<>>])
    /\ running' = Len(tasks) + 1

\* an event is taken from the queue: nothing runs, and the bound allows it
Handle ==
    /\ running = 0
    /\ events < MaxEvents
    /\ events' = events + 1

\* a message handled: the call of processDiagram made for it (0: none),
\* the value the listener returned, the responses sent and whether the
\* reaction to the promise of processDiagram has run
Channel(request, task, returned) ==
    [action |-> request.action, task |-> task, kept |-> returned,
     responses |-> <<>>, reacted |-> FALSE]

\* Faulty variant: the listener returns nothing, the channel is closed.
OnMessage_ClosesChannel(request) ==
    /\ Handle
    /\ IF request.action = "open_drawio"
       THEN /\ processDiagram("button", request.type,
                              OrElse(request.content, request.xml),
                              TypeOrXml(request.type))
            /\ channels' = Append(channels, Channel(request, Len(tasks) + 1,
                                                    FALSE))
       ELSE /\ UNCHANGED <<tasks, running>>
            /\ channels' = Append(channels, Channel(request, 0, FALSE))
    /\ UNCHANGED <<tabs, menu, sanVars, concVars, pageVars, clickVars>>

\* chrome.runtime.onMessage listener
OnMessage(request) ==
    /\ Handle
    /\ IF request.action = "open_drawio"
       THEN /\ processDiagram("button", request.type,
                              OrElse(request.content, request.xml),
                              TypeOrXml(request.type))
            /\ channels' = Append(channels, Channel(request, Len(tasks) + 1,
                                                    TRUE))
       ELSE /\ UNCHANGED <<tasks, running>>
            /\ channels' = Append(channels, Channel(request, 0, FALSE))
    /\ UNCHANGED <<tabs, menu, sanVars, concVars, pageVars, clickVars>>

\* chrome.contextMenus.onClicked listener (the menu has one item)
OnClicked(info, tab) ==
    /\ Handle
    /\ IF tab.hasId
       THEN menu' = Append(menu, info)
       ELSE UNCHANGED menu
    /\ UNCHANGED <<tasks, running, tabs, channels>>
    /\ UNCHANGED <<sanVars, concVars, pageVars, clickVars>>

\* the selection text with the type the background script detects in it
Fallback(info) ==
    IF ~Falsy(info.selectionText)
    THEN processDiagram("fallback", detectTypeFromText(info.selectionText),
                        info.selectionText,
                        detectTypeFromText(info.selectionText))
    ELSE UNCHANGED <<tasks, running>>

\* Faulty variant: the selection text is taken whenever there is one, and
\* the content script's answer only without a selection text.
OnResponse_SelectionFirst(k, lastError, response) ==
    /\ running = 0
    /\ k \in DOMAIN menu
    /\ menu' = SubSeq(menu, 1, k - 1) \o SubSeq(menu, k + 1, Len(menu))
    /\ IF lastError \/ ~Falsy(menu[k].selectionText) THEN Fallback(menu[k])
       ELSE IF ~Falsy(response.content)
       THEN processDiagram("response", response.type, response.content,
                           TypeOrXml(response.type))
       ELSE UNCHANGED <<tasks, running>>
    /\ UNCHANGED <<tabs, events, channels>>
    /\ UNCHANGED <<sanVars, concVars, pageVars, clickVars>>

\* the callback of chrome.tabs.sendMessage for the k-th pending message
OnResponse(k, lastError, response) ==
    /\ running = 0
    /\ k \in DOMAIN menu
    /\ menu' = SubSeq(menu, 1, k - 1) \o SubSeq(menu, k + 1, Len(menu))
    /\ IF lastError THEN Fallback(menu[k])
       ELSE IF ~Falsy(response.content)
       THEN processDiagram("response", response.type, response.content,
                           TypeOrXml(response.type))
       ELSE Fallback(menu[k])
    /\ UNCHANGED <<tabs, events, channels>>
    /\ UNCHANGED <<sanVars, concVars, pageVars, clickVars>>

\* the running call moves on: new position, fields assigned, step recorded
Proceed(position, assigned, step) ==
    /\ tasks' = [tasks EXCEPT ![running] =
                    [name \in DOMAIN @ |->
                        IF name = "pc" THEN position
                        ELSE IF name = "trace" THEN @.trace \o step
                        ELSE IF name \in DOMAIN assigned THEN assigned[name]
                        ELSE @[name]]]
    /\ UNCHANGED <<menu, events, channels>>
    /\ UNCHANGED <<sanVars, concVars, pageVars, clickVars>>

AtPc(position) == running # 0 /\ tasks[running].pc = position

Nothing == [none \in {} |-> <<>>]

\* Faulty variant: the Mermaid branch is missing.
PdEntry_NoMermaidBranch ==
    /\ AtPc("entry")
    /\ IF Falsy(tasks[running].content)
       THEN Proceed("returned", Nothing, <<>>) /\ running' = 0
       ELSE Proceed("trim", Nothing, <<>>) /\ UNCHANGED running
    /\ UNCHANGED tabs

\* if (!content) return; if (type === 'mermaid') ... else ...
PdEntry ==
    /\ AtPc("entry")
    /\ IF Falsy(tasks[running].content)
       THEN Proceed("returned", Nothing, <<>>) /\ running' = 0
       ELSE IF tasks[running].type = "mermaid"
       THEN Proceed("mermaid", Nothing, <<>>) /\ UNCHANGED running
       ELSE Proceed("trim", Nothing, <<>>) /\ UNCHANGED running
    /\ UNCHANGED tabs

\* Faulty variant: the Mermaid text is trimmed like the XML text.
PdMermaid_Trimmed ==
    /\ AtPc("mermaid")
    /\ LET config == [type |-> "mermaid",
                      data |-> Trim(tasks[running].content)]
       IN  Proceed("create",
                   [url |-> MERMAID_URL
                              \o encodeURIComponent(JsonStringify(config))],
                   <<"JSON.stringify", "encodeURIComponent">>)
    /\ UNCHANGED <<running, tabs>>

\* const url = `...?create=${encodeURIComponent(JSON.stringify(config))}`
PdMermaid ==
    /\ AtPc("mermaid")
    /\ LET config == [type |-> "mermaid", data |-> tasks[running].content]
       IN  Proceed("create",
                   [url |-> MERMAID_URL
                              \o encodeURIComponent(JsonStringify(config))],
                   <<"JSON.stringify", "encodeURIComponent">>)
    /\ UNCHANGED <<running, tabs>>

\* Faulty variant: the content is handed on without trim.
PdTrim_Skipped ==
    /\ AtPc("trim")
    /\ Proceed("sanitize", [xml |-> tasks[running].content], <<>>)
    /\ UNCHANGED <<running, tabs>>

\* const xml = content.trim()
PdTrim ==
    /\ AtPc("trim")
    /\ Proceed("sanitize", [xml |-> Trim(tasks[running].content)], <<"trim">>)
    /\ UNCHANGED <<running, tabs>>

\* const sanitizedXml = sanitizeXml(xml)
PdSanitize ==
    /\ AtPc("sanitize")
    /\ Proceed("compress",
               [sanitizedXml |-> sanitizeXml(tasks[running].xml)],
               <<"sanitizeXml">>)
    /\ UNCHANGED <<running, tabs>>

\* await compressData(sanitizedXml): the call is suspended
PdCompress ==
    /\ AtPc("compress")
    /\ Proceed("await", Nothing, <<"compressData">>)
    /\ running' = 0
    /\ UNCHANGED tabs

\* the promise of compressData is fulfilled with the compressed bytes or
\* rejected; a rejection is caught by the catch of processDiagram
PdAwait(t) ==
    /\ running = 0
    /\ t \in DOMAIN tasks
    /\ tasks[t].pc = "await"
    /\ \/ \E bytes \in DeflateOutputs :
            /\ tasks' = [tasks EXCEPT ![t].pc = "base64",
                                      ![t].compressed = bytes]
            /\ running' = t
       \/ /\ tasks' = [tasks EXCEPT ![t].pc = "caught"]
          /\ UNCHANGED running
    /\ UNCHANGED <<tabs, menu, events, channels>>
    /\ UNCHANGED <<sanVars, concVars, pageVars, clickVars>>

\* const base64 = arrayBufferToBase64(compressed); const url = `...#R${base64}`
PdBase64 ==
    /\ AtPc("base64")
    /\ LET base64 == arrayBufferToBase64(tasks[running].compressed)
       IN  Proceed("create", [base64 |-> base64, url |-> XML_URL \o base64],
                   <<"arrayBufferToBase64">>)
    /\ UNCHANGED <<running, tabs>>

\* chrome.tabs.create({ url: url }): a tab is created, or the call throws
\* and the catch of processDiagram logs the error
PdCreate ==
    /\ AtPc("create")
    /\ \/ /\ Proceed("returned", Nothing, <<"tabs.create">>)
          /\ tabs' = Append(tabs, [url |-> tasks[running].url, by |-> running])
       \/ /\ Proceed("caught", Nothing, <<"tabs.create">>)
          /\ UNCHANGED tabs
    /\ running' = 0

\* is the promise of a call of processDiagram settled, and is it rejected?
\* The try block spans the whole body and the catch block only logs, so a
\* call that threw is fulfilled like one that returned.
Settled(task) == task.pc \in {"returned", "caught"}

Rejected(task) == FALSE

\* the promise of the call made for message c is settled: the listener's
\* reaction runs, then() or catch(), and sends the response
PdSettled(c) ==
    /\ running = 0
    /\ c \in DOMAIN channels
    /\ channels[c].task # 0
    /\ ~channels[c].reacted
    /\ Settled(tasks[channels[c].task])
    /\ channels' = [channels EXCEPT
                       ![c].reacted = TRUE,
                       ![c].responses =
                           Append(@, [success |->
                                        ~Rejected(tasks[channels[c].task])])]
    /\ UNCHANGED <<tasks, running, tabs, menu, events>>
    /\ UNCHANGED <<sanVars, concVars, pageVars, clickVars>>

BgInit == BgIdle /\ SanIdle /\ ConcIdle /\ PageIdle /\ ClickIdle

BgNext ==
    \/ \E request \in ButtonMessages \cup OtherMessages : OnMessage(request)
    \/ \E text \in BgTexts, hasId \in BOOLEAN :
          OnClicked([selectionText |-> text], [hasId |-> hasId])
    \/ \E k \in DOMAIN menu, response \in Responses :
          OnResponse(k, FALSE, response)
    \/ \E k \in DOMAIN menu : OnResponse(k, TRUE, Undefined)
    \/ PdEntry
    \/ PdMermaid
    \/ PdTrim
    \/ PdSanitize
    \/ PdCompress
    \/ \E t \in DOMAIN tasks : PdAwait(t)
    \/ PdBase64
    \/ PdCreate

BgSpec == BgInit /\ [][BgNext]_vars

\* The onMessage listener alone, with the reactions to the promises of the
\* calls it made.
MsgNext ==
    \/ \E request \in ButtonMessages \cup OtherMessages : OnMessage(request)
    \/ PdEntry
    \/ PdMermaid
    \/ PdTrim
    \/ PdSanitize
    \/ PdCompress
    \/ \E t \in DOMAIN tasks : PdAwait(t)
    \/ PdBase64
    \/ PdCreate
    \/ \E c \in DOMAIN channels : PdSettled(c)

MsgSpec == BgInit /\ [][MsgNext]_vars

\* the steps of a call of processDiagram that is running, the completion
\* of a compression and the reactions of the listener's promise chain
MsgProgress ==
    \/ PdEntry
    \/ PdTrim
    \/ PdCompress
    \/ \E t \in DOMAIN tasks : PdAwait(t)
    \/ PdBase64
    \/ PdCreate
    \/ \E c \in DOMAIN channels : PdSettled(c)

\* A call that can run does run, and a reaction that is due is run.  The
\* conditions of PdMermaid and PdSanitize are WF_vars of these actions with
\* ENABLED written out as the position they are taken at.
MsgFairSpec ==
    /\ MsgSpec
    /\ WF_vars(MsgProgress)
    /\ ([]<>(~AtPc("mermaid")) \/ []<><<PdMermaid>>_vars)
    /\ ([]<>(~AtPc("sanitize")) \/ []<><<PdSanitize>>_vars)

(* The two type detectors on the same texts: one event per behaviour, its  *)
(* text put together from the parts the detectors look for.                *)

MaxParts == 3

DetectTokens ==
    { <<" ">>,
      <<"g", "r", "a", "p", "h">>,
      <<"s", "e", "q", "u", "e", "n", "c", "e", "D", "i", "a", "g", "r", "a", "m">>,
      MX_FILE_END,
      MX_GRAPH_MODEL_END,
      MX_FILE,
      <<"a", "b">> }

DetectNext ==
    \/ /\ events = 0
       /\ \E text \in Strings(DetectTokens, MaxParts), element \in Elements :
             /\ detectDiagramType(text, element) # NoType
             /\ OnMessage([action |-> "open_drawio", content |-> text,
                           type |-> detectDiagramType(text, element),
                           xml |-> Undefined])
    \/ /\ events = 0
       /\ \E text \in Strings(DetectTokens, MaxParts), hasId \in BOOLEAN :
             OnClicked([selectionText |-> text], [hasId |-> hasId])
    \/ \E k \in DOMAIN menu, inPre \in BOOLEAN, element \in Elements :
          OnResponse(k, FALSE,
                     selectionContext([text |-> menu[k].selectionText,
                                       inPre |-> inPre,
                                       fullText |-> menu[k].selectionText,
                                       element |-> element]))
    \/ \E k \in DOMAIN menu : OnResponse(k, TRUE, Undefined)
    \/ PdEntry
    \/ PdMermaid
    \/ PdTrim
    \/ PdSanitize
    \/ PdCompress
    \/ \E t \in DOMAIN tasks : PdAwait(t)
    \/ PdBase64
    \/ PdCreate

DetectSpec == BgInit /\ [][DetectNext]_vars

\* did the call of processDiagram run the step?
Ran(task, step) == \E k \in DOMAIN task.trace : task.trace[k] = step

(* C12 as stated: the sanitizer is invoked only when the type hint is      *)
(* "xml".  Whichever way processDiagram was reached (button message,       *)
(* context-menu response, context-menu fallback), a call that ran          *)
(* sanitizeXml was made for content whose detected type was "xml".         *)
C12_SanitizerOnlyForXml ==
    \A t \in DOMAIN tasks :
        Ran(tasks[t], "sanitizeXml") => tasks[t].detected = "xml"

(* C12 as amended: the sanitizer is invoked for every type but "mermaid".  *)
(* A call of processDiagram that ran sanitizeXml has the type argument     *)
(* "xml", and the type detected for its content was "xml" or, in a         *)
(* context-menu response, none (the background script then defaults to     *)
(* "xml"); a call for content detected as "mermaid" never runs it, and     *)
(* processDiagram is only called with the types "xml" and "mermaid".       *)
C12_SanitizerNeverForMermaid ==
    \A t \in DOMAIN tasks :
        /\ tasks[t].type \in {"xml", "mermaid"}
        /\ tasks[t].type = TypeOrXml(tasks[t].detected)
        /\ Ran(tasks[t], "sanitizeXml") =>
              /\ tasks[t].type = "xml"
              /\ tasks[t].detected \in {"xml", NoType}
              /\ tasks[t].detected = NoType => tasks[t].source = "response"

\* the sanitizer ran for a button message whose type was "xml" and for a
\* context-menu response without a type
C12_Witness ==
    /\ \E t \in DOMAIN tasks :
          /\ tasks[t].source = "button"
          /\ tasks[t].detected = "xml"
          /\ Ran(tasks[t], "sanitizeXml")
    /\ \E t \in DOMAIN tasks :
          /\ tasks[t].source = "response"
          /\ tasks[t].detected = NoType
          /\ Ran(tasks[t], "sanitizeXml")
          /\ tasks[t].pc = "returned"

(* Reading a `?create=` URL back, as its receiver does: decodeURIComponent *)
(* and JSON.parse, then the data property of the envelope.                 *)

EscapedChars ==
    {"\t", "\n", "\f", "\r", " ", "\"", "&", ",", "/", ":", ";", "<", "=",
     ">", "\\", "{", "}", "U+00E9"}

RECURSIVE decodeURIComponent(_)
decodeURIComponent(text) ==
    IF text = <<>> THEN <<>>
    ELSE IF Head(text) = "%"
    THEN LET ch == CHOOSE c \in EscapedChars :
                      StartsWith(text, PercentBytes(Utf8Hex(c)), 0)
             n == Len(PercentBytes(Utf8Hex(ch)))
         IN  <<ch>> \o decodeURIComponent(SubSeq(text, n + 1, Len(text)))
    ELSE <<Head(text)>> \o decodeURIComponent(Tail(text))

\* the text of a JSON string body
RECURSIVE JsonText(_)
JsonText(body) ==
    IF body = <<>> THEN <<>>
    ELSE IF Head(body) = "\\"
    THEN LET e == body[2]
             ch == CASE e = "n" -> "\n" [] e = "t" -> "\t" [] e = "r" -> "\r"
                     [] e = "f" -> "\f" [] OTHER -> e
         IN  <<ch>> \o JsonText(SubSeq(body, 3, Len(body)))
    ELSE <<Head(body)>> \o JsonText(Tail(body))

\* JSON.parse(json).data for an envelope {"type":"mermaid","data":"..."}
EnvelopeData(json) ==
    LET opening == JsonStringify([type |-> "mermaid", data |-> <<>>])
        start == Len(opening) - 2
    IN  JsonText(SubSeq(json, start + 1, Len(json) - 2))

SanitizingSteps == {"trim", "sanitizeXml", "compressData", "arrayBufferToBase64"}

(* C13: for type 'mermaid', processDiagram calls neither trim nor          *)
(* sanitizeXml nor compressData, and the URL it has built when it calls    *)
(* chrome.tabs.create is the `?create=` prefix followed by an encoded JSON *)
(* envelope whose data, read back, is exactly the content the call         *)
(* received; a tab it created has that URL.                                *)
C13_MermaidUntouched ==
    \A t \in DOMAIN tasks :
        tasks[t].type = "mermaid" =>
          /\ \A step \in SanitizingSteps : ~Ran(tasks[t], step)
          /\ tasks[t].pc = "create" =>
                /\ Head(tasks[t].url) = Head(MERMAID_URL)
                /\ EnvelopeData(decodeURIComponent(Tail(tasks[t].url)))
                      = tasks[t].content
          /\ \A k \in DOMAIN tabs :
                tabs[k].by = t => tabs[k].url = tasks[t].url /\ tabs[k].url # <<>>

\* a Mermaid text with white space before it and a `>` in it, in a tab
C13_Witness ==
    \E t \in DOMAIN tasks, k \in DOMAIN tabs :
        /\ tasks[t].type = "mermaid"
        /\ tasks[t].pc = "returned"
        /\ Head(tasks[t].content) \in Whitespace
        /\ Includes(tasks[t].content, <<">">>)
        /\ tabs[k].by = t

(* Reading Base64 back (atob): four characters give up to three bytes.     *)

B64Value(ch) == (CHOOSE k \in DOMAIN B64Alphabet : B64Alphabet[k] = ch) - 1

RECURSIVE atob(_)
atob(text) ==
    IF text = <<>> THEN <<>>
    ELSE LET value(k) == IF text[k] = "=" THEN 0 ELSE B64Value(text[k])
             bits == value(1) * 262144 + value(2) * 4096
                        + value(3) * 64 + value(4)
             bytes == <<bits \div 65536, (bits \div 256) % 256, bits % 256>>
             count == IF text[3] = "=" THEN 1 ELSE IF text[4] = "=" THEN 2 ELSE 3
         IN  SubSeq(bytes, 1, count) \o atob(SubSeq(text, 5, Len(text)))

\* the steps of the XML branch, in the order of the code
XmlSteps ==
    <<"trim", "sanitizeXml", "compressData", "arrayBufferToBase64",
      "tabs.create">>

TabsBy(t) == {k \in DOMAIN tabs : tabs[k].by = t}

(* C14: for XML content processDiagram runs trim, sanitizeXml,             *)
(* compressData, arrayBufferToBase64 and chrome.tabs.create in this order, *)
(* each at most once; what it hands to compressData is sanitizeXml of the  *)
(* whole trimmed content; a call creates at most one tab, none when the    *)
(* content is empty or a step threw, and the tab's URL is                  *)
(* `https://app.diagrams.net/#R` followed by the Base64 text of the        *)
(* compressed bytes.                                                       *)
C14_XmlPipeline ==
    \A t \in DOMAIN tasks :
        /\ Cardinality(TabsBy(t)) <= 1
        /\ Falsy(tasks[t].content) => TabsBy(t) = {} /\ tasks[t].trace = <<>>
        /\ tasks[t].pc = "caught" => TabsBy(t) = {}
        /\ tasks[t].type = "xml" =>
              /\ Len(tasks[t].trace) <= Len(XmlSteps)
              /\ tasks[t].trace = SubSeq(XmlSteps, 1, Len(tasks[t].trace))
              /\ tasks[t].pc = "compress" =>
                    /\ tasks[t].xml = Trim(tasks[t].content)
                    /\ tasks[t].sanitizedXml = sanitizeXml(tasks[t].xml)
              /\ \A k \in TabsBy(t) :
                    /\ tasks[t].trace = XmlSteps
                    /\ tasks[t].pc = "returned"
                    /\ Head(tabs[k].url) = Head(XML_URL)
                    /\ Tail(tabs[k].url) = tasks[t].base64
                    /\ atob(Tail(tabs[k].url)) = tasks[t].compressed
                    /\ tasks[t].compressed \in DeflateOutputs

\* one XML call that trimmed, escaped and opened a tab, and one that threw
C14_Witness ==
    \E t, u \in DOMAIN tasks :
        /\ tasks[t].type = "xml"
        /\ tasks[t].xml # tasks[t].content
        /\ tasks[t].sanitizedXml # tasks[t].xml
        /\ TabsBy(t) # {}
        /\ tasks[u].type = "xml"
        /\ tasks[u].pc = "caught"

(* The content script, on a page that holds one code block.  The block is  *)
(* made of a CODE-BLOCK, a PRE and a CODE element, nested in this order,   *)
(* any of them missing; it has one text; header says whether the button    *)
(* container the site's branch looks for is there, wrapper whether its     *)
(* second container is (.codeWrapper around the block on Perplexity,       *)
(* .formatted-code-block-internal-container in a CODE-BLOCK).  The page    *)
(* changes, the MutationObserver callback runs after each change, and the  *)
(* timer of the debounced processPendingBlocks fires.                      *)

MaxMutations == 3

\* the changes of text of RetrySpec
MaxTextChanges == 6

\* the wait of the debounced function (100 ms), in ticks of the clock
WaitTicks == 2

Sites == {"claude", "chatgpt", "aistudio", "deepseek", "perplexity", "other"}

BlockTags == <<"CODE-BLOCK", "PRE", "CODE">>

TagSet == {BlockTags[k] : k \in DOMAIN BlockTags}

Depth(tag) == CHOOSE k \in DOMAIN BlockTags : BlockTags[k] = tag

\* the texts of a block: one too short to be detected, one Draw.io file
PageTexts == {text \in BgTexts : text # <<>> /\ ~HasMermaidKeyword(text)}

\* and the start of the short one, as when a reply is streamed
StreamedTexts == PageTexts \cup {<<"a", "<">>}

Pages ==
    [elems : SUBSET TagSet, text : PageTexts,
     codeClasses : {{}, {"language-xml"}}, header : BOOLEAN, wrapper : BOOLEAN]

\* element.closest(ancestor), for an ancestor other than the element
Closest(pg, tag, ancestor) ==
    ancestor \in pg.elems /\ Depth(ancestor) < Depth(tag)

\* element.querySelector('code')
CodeChild(pg, tag) == "CODE" \in pg.elems /\ Depth(tag) < Depth("CODE")

isRelevantCodeBlock(pg, tag) ==
    IF tag = "CODE-BLOCK" THEN TRUE
    ELSE IF tag # "CODE" THEN FALSE
    ELSE IF site = "perplexity" /\ pg.wrapper THEN TRUE
    ELSE pg.codeClasses \cap (XmlClasses \cup MermaidClasses) # {}

\* pendingBlocks.add(block): a Set keeps the order of insertion
Add(blocks, block) ==
    IF \E k \in DOMAIN blocks : blocks[k] = block THEN blocks
    ELSE Append(blocks, block)

Delete(blocks, block) == SelectSeq(blocks, LAMBDA b : b # block)

\* enqueuePreOrCode(pre): the element it adds to pendingBlocks, or "none"
enqueuePreOrCode(pg) ==
    IF "PRE" \in processedBlocks THEN "none"
    ELSE IF Closest(pg, "PRE", "CODE-BLOCK") THEN "none"
    ELSE IF site = "chatgpt"
    THEN IF CodeChild(pg, "PRE") /\ "CODE" \notin processedBlocks
         THEN "CODE" ELSE "none"
    ELSE IF CodeChild(pg, "PRE") /\ isRelevantCodeBlock(pg, "CODE")
    THEN IF "CODE" \notin processedBlocks THEN "CODE" ELSE "none"
    ELSE "PRE"

\* Faulty variant: the rules for CODE-BLOCK and CODE do not look the element
\* up in processedBlocks.
Enqueued_Unchecked(pg, tag) ==
    IF tag \notin pg.elems THEN "none"
    ELSE IF tag = "PRE" THEN enqueuePreOrCode(pg)
    ELSE IF tag = "CODE-BLOCK" THEN tag
    ELSE IF site = "chatgpt" \/ isRelevantCodeBlock(pg, tag)
    THEN tag ELSE "none"

\* the observer's rule for an element of the block: what it adds
Enqueued(pg, tag) ==
    IF tag \notin pg.elems THEN "none"
    ELSE IF tag = "PRE" THEN enqueuePreOrCode(pg)
    ELSE IF tag = "CODE-BLOCK"
    THEN IF tag \notin processedBlocks THEN tag ELSE "none"
    ELSE IF /\ tag \notin processedBlocks
            /\ site = "chatgpt" \/ isRelevantCodeBlock(pg, tag)
    THEN tag ELSE "none"

\* pendingBlocks after the rules of a callback added what they found
RECURSIVE AddAll(_, _)
AddAll(blocks, found) ==
    IF found = <<>> THEN blocks
    ELSE AddAll(IF Head(found) = "none" THEN blocks
                ELSE Add(blocks, Head(found)), Tail(found))

\* the function debounce returns is called: clearTimeout(timeout) and
\* timeout = setTimeout(..., wait)
Debounced ==
    /\ timeout' = TRUE
    /\ elapsed' = 0
    /\ ran' = 0
    /\ cleared' = timeout

\* the page changes to `changed` and the observer's
\* callback runs: it adds what its rules found and calls
\* processPendingBlocks() when a rule added something
Mutate(changed, found) ==
    /\ records = <<>>
    /\ mutations' = mutations + 1
    /\ page' = changed
    /\ pendingBlocks' = AddAll(pendingBlocks, found)
    /\ IF \E k \in DOMAIN found : found[k] # "none" THEN Debounced
       ELSE UNCHANGED <<timeout, elapsed, ran, cleared>>
    /\ UNCHANGED <<site, processedBlocks, retryCount, buttons, records>>
    /\ UNCHANGED <<sanVars, concVars, bgVars, clickVars>>

\* the elements `tags`, nested, are inserted as one node into the block (or
\* into the page): the added node is the outermost of them
SubtreeAdded(tags) ==
    /\ tags # {}
    /\ \A tag \in tags : \A old \in page.elems : Depth(old) < Depth(tag)
    /\ LET root == CHOOSE tag \in tags : \A t \in tags : Depth(tag) <= Depth(t)
           changed == [page EXCEPT !.elems = @ \cup tags]
       IN  Mutate(changed, <<Enqueued(changed, root)>>)

\* the whole block is inserted inside a DIV (on Perplexity the .codeWrapper
\* when there is one): the observer looks for the CODE and PRE elements
\* inside the added node
ContainerAdded(tags) ==
    /\ tags # {}
    /\ page.elems = {}
    /\ LET changed == [page EXCEPT !.elems = tags]
       IN  Mutate(changed,
                  <<IF /\ site = "perplexity" /\ page.wrapper
                       /\ "CODE" \in tags /\ "CODE" \notin processedBlocks
                    THEN "CODE" ELSE "none",
                    Enqueued(changed, "CODE"),
                    Enqueued(changed, "PRE")>>)

\* the text of the block changes: a text node is added to the element
\* parent (or to a SPAN or DIV in it), or the data of a text node of parent
\* changes; character data is not observed on Claude
TextChanged(text, parent, kind) ==
    /\ parent \in page.elems
    /\ text # page.text
    /\ LET changed == [page EXCEPT !.text = text]
       IN  Mutate(changed,
                  IF kind = "childList"
                  THEN IF parent \in {"PRE", "CODE"}
                       THEN <<Enqueued(changed, parent)>> ELSE <<>>
                  ELSE IF site # "claude"
                       THEN <<Enqueued(changed, parent)>> ELSE <<>>)

\* the CODE element gets a language class: attributes are not observed
ClassAdded ==
    /\ "CODE" \in page.elems
    /\ page.codeClasses = {}
    /\ Mutate([page EXCEPT !.codeClasses = {"language-xml"}], <<>>)

\* the button container of the site appears, in a DIV that holds no code
HeaderAdded ==
    /\ ~page.header
    /\ Mutate([page EXCEPT !.header = TRUE], <<>>)

(* One run of processPendingBlocks: the blocks of pendingBlocks, in order. *)
(* A run is threaded through a record of the two sets, the retry counters  *)
(* and the buttons.                                                        *)

\* is the place `at` of a button inside the element block?  (The sticky
\* header of ChatGPT is a child of the PRE, the two containers of Gemini
\* are in the CODE-BLOCK, the other containers are outside the block.)
Inside(at, block) ==
    \/ at \in TagSet /\ Depth(at) >= Depth(block)
    \/ at \in {"headerButtons", "internalContainer"} /\ block = "CODE-BLOCK"
    \/ at = "stickyHeader" /\ block # "CODE"

\* container.querySelector('.drawio-launcher-btn')
HasButtonAt(placed, at) == \E k \in DOMAIN placed : placed[k].at = at

\* block.querySelector('.drawio-launcher-btn')
HasButtonInside(placed, block) ==
    \E k \in DOMAIN placed : Inside(placed[k].at, block)

\* the buttons the branch of the site inserts for a block
Inserted(placed, block) ==
    LET btn(at) == <<[for |-> block, at |-> at]>>
        unless(at) == IF HasButtonAt(placed, at) THEN <<>> ELSE btn(at)
    IN  IF site = "claude" THEN btn(block) \o btn(block)
        ELSE IF site = "aistudio"
        THEN IF page.header THEN unless("matContent") ELSE <<>>
        ELSE IF block = "CODE-BLOCK"
        THEN IF page.header THEN btn("headerButtons")
             ELSE IF page.wrapper THEN btn("internalContainer")
             ELSE btn(block)
        ELSE IF site = "deepseek"
        THEN IF page.header THEN unless("banner") ELSE <<>>
        ELSE IF site = "perplexity"
        THEN IF ~page.wrapper THEN <<>>
             ELSE IF page.header THEN unless("copyButtonParent")
             ELSE IF placed = <<>> THEN btn("codeWrapper") ELSE <<>>
        ELSE IF block = "CODE" /\ ~Closest(page, "CODE", "PRE") THEN <<>>
        ELSE IF page.header THEN unless("stickyHeader")
        ELSE btn(block)

\* the type detected for a block: text and classes of its CODE, else its own
DetectedType(block) ==
    LET codeElement == IF block = "CODE" \/ CodeChild(page, block)
                       THEN "CODE" ELSE block
    IN  detectDiagramType(page.text,
                          [classes |-> IF codeElement = "CODE"
                                       THEN page.codeClasses ELSE {},
                           preClasses |-> {}])

\* Faulty variant: a block is given up on its fifth failed run.
ProcessBlock_FiveRuns(run, block) ==
    IF block \in run.processedBlocks THEN run
    ELSE IF block # "CODE-BLOCK" /\ Closest(page, block, "CODE-BLOCK") THEN run
    ELSE IF DetectedType(block) # NoType
    THEN IF HasButtonInside(run.buttons, block)
         THEN [run EXCEPT !.processedBlocks = @ \cup {block},
                          !.pendingBlocks = Delete(@, block)]
         ELSE [run EXCEPT !.processedBlocks = @ \cup {block},
                          !.buttons = @ \o Inserted(@, block),
                          !.pendingBlocks = Delete(@, block)]
    ELSE LET count == run.retryCount[block] + 1
         IN  [run EXCEPT !.retryCount[block] = count,
                         !.pendingBlocks = IF count >= 5 THEN Delete(@, block)
                                           ELSE @]

\* Faulty variant: a block given its buttons is marked processed and left
\* in pendingBlocks.
ProcessBlock_KeepsPending(run, block) ==
    IF block \in run.processedBlocks THEN run
    ELSE IF block # "CODE-BLOCK" /\ Closest(page, block, "CODE-BLOCK") THEN run
    ELSE IF DetectedType(block) # NoType
    THEN IF HasButtonInside(run.buttons, block)
         THEN [run EXCEPT !.processedBlocks = @ \cup {block},
                          !.pendingBlocks = Delete(@, block)]
         ELSE [run EXCEPT !.processedBlocks = @ \cup {block},
                          !.buttons = @ \o Inserted(@, block)]
    ELSE LET count == run.retryCount[block] + 1
         IN  [run EXCEPT !.retryCount[block] = count,
                         !.pendingBlocks = IF count > 5 THEN Delete(@, block)
                                           ELSE @]

\* the body of pendingBlocks.forEach for one block
ProcessBlock(run, block) ==
    IF block \in run.processedBlocks THEN run
    ELSE IF block # "CODE-BLOCK" /\ Closest(page, block, "CODE-BLOCK") THEN run
    ELSE IF DetectedType(block) # NoType
    THEN IF HasButtonInside(run.buttons, block)
         THEN [run EXCEPT !.processedBlocks = @ \cup {block},
                          !.pendingBlocks = Delete(@, block)]
         ELSE [run EXCEPT !.processedBlocks = @ \cup {block},
                          !.buttons = @ \o Inserted(@, block),
                          !.pendingBlocks = Delete(@, block)]
    ELSE LET count == run.retryCount[block] + 1
         IN  [run EXCEPT !.retryCount[block] = count,
                         !.pendingBlocks = IF count > 5 THEN Delete(@, block)
                                           ELSE @]

RECURSIVE ProcessAll(_, _)
ProcessAll(run, blocks) ==
    IF blocks = <<>> THEN run
    ELSE ProcessAll(ProcessBlock(run, Head(blocks)), Tail(blocks))

\* the node a run inserts: the button, on Claude a SPAN that holds it
OwnNode == IF site = "claude" THEN "SPAN" ELSE "BUTTON"

\* the elements the observer looks into for CODE and PRE elements
ContainerTags ==
    {"DIV", "MAIN", "SECTION", "ARTICLE", "TD", "MS-CODE-BLOCK",
     "MAT-EXPANSION-PANEL", "MS-PROMPT-CHUNK", "MS-TEXT-CHUNK"}

\* Faulty variant: for an added element of another kind the observer looks
\* for CODE and PRE elements in the whole document.
AddedElement_ScansDocument(pg, tagName, inside) ==
    IF tagName \in TagSet THEN <<Enqueued(pg, tagName)>>
    ELSE <<Enqueued(pg, "CODE"), Enqueued(pg, "PRE")>>

\* the observer's rules for an added element with the elements `inside` of
\* a block in it: what they add
AddedElement(pg, tagName, inside) ==
    IF tagName \in TagSet THEN <<Enqueued(pg, tagName)>>
    ELSE IF tagName \in ContainerTags
    THEN <<IF "CODE" \in inside THEN Enqueued(pg, "CODE") ELSE "none",
           IF "PRE" \in inside THEN Enqueued(pg, "PRE") ELSE "none">>
    ELSE <<>>

RECURSIVE AddedAll(_, _)
AddedAll(pg, nodes) ==
    IF nodes = <<>> THEN <<>>
    ELSE AddedElement(pg, Head(nodes), {}) \o AddedAll(pg, Tail(nodes))

\* the observer's callback for the nodes the last run inserted, before any
\* other task runs
OwnCallback ==
    /\ records # <<>>
    /\ records' = <<>>
    /\ LET found == AddedAll(page, records)
       IN  /\ pendingBlocks' = AddAll(pendingBlocks, found)
           /\ IF \E k \in DOMAIN found : found[k] # "none" THEN Debounced
              ELSE UNCHANGED <<timeout, elapsed, ran, cleared>>
    /\ UNCHANGED <<site, page, processedBlocks, retryCount, buttons,
                   mutations>>
    /\ UNCHANGED <<sanVars, concVars, bgVars, clickVars>>

\* time passes while the timer runs
Tick ==
    /\ records = <<>>
    /\ timeout
    /\ elapsed < WaitTicks
    /\ elapsed' = elapsed + 1
    /\ UNCHANGED <<site, page, pendingBlocks, processedBlocks, retryCount,
                   buttons, timeout, ran, cleared, records, mutations>>
    /\ UNCHANGED <<sanVars, concVars, bgVars, clickVars>>

\* Faulty variant: the timer fires without waiting.
Fire_Early ==
    /\ records = <<>>
    /\ timeout
    /\ LET run == ProcessAll([pendingBlocks |-> pendingBlocks,
                              processedBlocks |-> processedBlocks,
                              retryCount |-> retryCount,
                              buttons |-> buttons], pendingBlocks)
       IN  /\ pendingBlocks' = run.pendingBlocks
           /\ processedBlocks' = run.processedBlocks
           /\ retryCount' = run.retryCount
           /\ buttons' = run.buttons
           /\ records' = [k \in 1..(Len(run.buttons) - Len(buttons)) |->
                             OwnNode]
    /\ timeout' = FALSE
    /\ ran' = ran + 1
    /\ UNCHANGED <<site, page, elapsed, cleared, mutations>>
    /\ UNCHANGED <<sanVars, concVars, bgVars, clickVars>>

\* the timer fires, the wait after it was set: processPendingBlocks runs
\* over pendingBlocks
Fire ==
    /\ records = <<>>
    /\ timeout
    /\ elapsed = WaitTicks
    /\ LET run == ProcessAll([pendingBlocks |-> pendingBlocks,
                              processedBlocks |-> processedBlocks,
                              retryCount |-> retryCount,
                              buttons |-> buttons], pendingBlocks)
       IN  /\ pendingBlocks' = run.pendingBlocks
           /\ processedBlocks' = run.processedBlocks
           /\ retryCount' = run.retryCount
           /\ buttons' = run.buttons
           /\ records' = [k \in 1..(Len(run.buttons) - Len(buttons)) |->
                             OwnNode]
    /\ timeout' = FALSE
    /\ ran' = ran + 1
    /\ UNCHANGED <<site, page, elapsed, cleared, mutations>>
    /\ UNCHANGED <<sanVars, concVars, bgVars, clickVars>>

\* the script has run its initial pass over the page it was loaded into:
\* every CODE-BLOCK and CODE that is relevant (any, on ChatGPT), then what
\* enqueuePreOrCode gives for the PRE, and a first processPendingBlocks()
PageInit ==
    /\ site \in Sites
    /\ page \in Pages
    /\ processedBlocks = {}
    /\ pendingBlocks =
          LET initial(tag) ==
                  IF /\ tag \in page.elems
                     /\ site = "chatgpt" \/ isRelevantCodeBlock(page, tag)
                  THEN tag ELSE "none"
          IN  AddAll(<<>>, <<initial("CODE-BLOCK"), initial("CODE"),
                            Enqueued(page, "PRE")>>)
    /\ retryCount = [tag \in TagSet |-> 0]
    /\ buttons = <<>>
    /\ timeout = TRUE
    /\ elapsed = 0
    /\ ran = 0
    /\ cleared = FALSE
    /\ records = <<>>
    /\ mutations = 0
    /\ SanIdle /\ ConcIdle /\ BgIdle /\ ClickIdle

PageNext ==
    \/ /\ mutations < MaxMutations
       /\ \E tags \in SUBSET TagSet : SubtreeAdded(tags)
    \/ /\ mutations < MaxMutations
       /\ \E tags \in SUBSET TagSet : ContainerAdded(tags)
    \/ /\ mutations < MaxMutations
       /\ \E text \in PageTexts, parent \in TagSet,
             kind \in {"childList", "characterData"} :
               TextChanged(text, parent, kind)
    \/ mutations < MaxMutations /\ ClassAdded
    \/ mutations < MaxMutations /\ HeaderAdded
    \/ OwnCallback
    \/ Tick
    \/ Fire

PageSpec == PageInit /\ [][PageNext]_vars

\* The observer's callback runs, the clock advances and a timer that is
\* due fires.
PageFairSpec ==
    PageSpec /\ WF_vars(OwnCallback) /\ WF_vars(Tick) /\ WF_vars(Fire)

\* The page as loaded, with a text that keeps changing: more changes, of
\* the text alone.
RetryNext ==
    \/ /\ mutations < MaxTextChanges
       /\ \E text \in StreamedTexts, parent \in TagSet,
             kind \in {"childList", "characterData"} :
               TextChanged(text, parent, kind)
    \/ OwnCallback
    \/ Tick
    \/ Fire

RetrySpec == PageInit /\ [][RetryNext]_vars

\* is there a button for the block: one created for it, one inside it, or
\* one in a container outside the block
ButtonFor(block) ==
    \E k \in DOMAIN buttons :
        \/ buttons[k].for = block
        \/ Inside(buttons[k].at, block)
        \/ buttons[k].at \notin TagSet

(* C15: a block is marked processed only if a button exists for it.        *)
(* Whenever a run of processPendingBlocks has detected a type for a block  *)
(* and added it to processedBlocks, an 'Open in Draw.io' button for that   *)
(* block is in the page, on every site.                                    *)
C15_ButtonWhenProcessed ==
    \A block \in processedBlocks : ButtonFor(block)

(* The lexical rules of sanitizeXml, one by one, on the runs of LexSpec.   *)

\* iteration k read a `<` in TEXT state that opens neither a CDATA section
\* nor a comment
PlainLtInText(k) ==
    /\ hist[k].state = STATE_TEXT
    /\ CharRead(k) = "<"
    /\ ~StartsWith(xml, CDATA_OPEN, hist[k].i)
    /\ ~StartsWith(xml, COMMENT_OPEN, hist[k].i)

\* the character after the one iteration k read, "" at the end of the input
CharAfter(k) == CharAt(xml, hist[k].i + 1)

AmpTested(k) ==
    /\ hist[k].state \in {STATE_TEXT, STATE_ATTR_VALUE_DQ, STATE_ATTR_VALUE_Q}
    /\ CharRead(k) = "&"

\* the text strictly between the `&` iteration k read and the first `;`
\* after it; <<"none">> when no `;` follows
BodyAt(k) ==
    LET amp == hist[k].i + 1
        semis == {p \in (amp + 1)..Len(xml) : xml[p] = ";"}
    IN  IF semis = {} THEN <<"none">>
        ELSE LET first == CHOOSE p \in semis : \A q \in semis : p <= q
             IN  SubSeq(xml, amp + 1, first - 1)

\* `#x` and hexadecimal digits, `#` and decimal digits, or a letter and
\* letters or digits: with one digit or one more character at least
ReferenceBody(body) ==
    LET rest(from) == {body[p] : p \in from..Len(body)}
    IN  \/ /\ Len(body) >= 3 /\ body[1] = "#" /\ body[2] = "x"
           /\ rest(3) \subseteq HexDigits
        \/ /\ Len(body) >= 2 /\ body[1] = "#"
           /\ rest(2) \subseteq Digits
        \/ /\ Len(body) >= 2 /\ body[1] \in Letters
           /\ rest(2) \subseteq Letters \cup Digits

(* C17: the entity test.  An `&` read in TEXT state or inside a quoted     *)
(* attribute value is copied exactly when the input has a `;` after it     *)
(* and the text strictly between the `&` and the first such `;` is `#x`    *)
(* with one or more hexadecimal digits, `#` with one or more decimal       *)
(* digits, or a letter followed by one or more letters or digits; in every *)
(* other case (no later `;`, an empty body, `#` or `#x` alone, a name of   *)
(* one letter, a name with `-`, `_`, `.` or white space) `&amp;` is        *)
(* appended.                                                               *)
C17_EntityTest ==
    pc = "done" =>
        \A k \in DOMAIN hist :
            AmpTested(k) =>
                /\ hist[k].out = IF ReferenceBody(BodyAt(k)) THEN <<"&">>
                                 ELSE ENT_AMP
                /\ BodyAt(k) \in { <<"none">>, <<>>, <<"#">>, <<"#", "x">>,
                                   <<"a">>, <<"a", "-">>, <<"a", "_">>,
                                   <<"a", ".">>, <<"a", " ">> }
                      => hist[k].out = ENT_AMP

\* a finished run in which the `&` of `&lt;` was copied and the `&` of a
\* one-letter name that follows it was escaped
C17_Witness ==
    /\ pc = "done"
    /\ \E k, m \in DOMAIN hist :
          /\ AmpTested(k) /\ BodyAt(k) = <<"l", "t">>
          /\ hist[k].out = <<"&">>
          /\ AmpTested(m) /\ BodyAt(m) = <<"a">>
          /\ hist[m].out = ENT_AMP

\* iteration k read, inside a value quoted with `quote`, that same quote
OwnQuote(k, quote) ==
    /\ hist[k].state = (IF quote = "\"" THEN STATE_ATTR_VALUE_DQ
                        ELSE STATE_ATTR_VALUE_Q)
    /\ CharRead(k) = quote

\* a text with the two quote characters swapped
SwapQuotes(text) ==
    [p \in DOMAIN text |-> IF text[p] = "\"" THEN "'"
                           ELSE IF text[p] = "'" THEN "\""
                           ELSE text[p]]

\* what iterations from..to appended, with the quote characters and the
\* two quote entities they stand for swapped
RECURSIVE SwappedOut(_, _)
SwappedOut(from, to) ==
    IF from > to THEN <<>>
    ELSE (IF hist[from].out = ENT_QUOT THEN ENT_APOS
          ELSE IF hist[from].out = ENT_APOS THEN ENT_QUOT
          ELSE SwapQuotes(hist[from].out)) \o SwappedOut(from + 1, to)

(* C18: the end of a quoted attribute value.  Inside a double-quoted       *)
(* value a `"` is copied and closes the value (ATTR_NAME follows) if and   *)
(* only if the character right after it is the end of the input, `>`,      *)
(* `/`, `?` or white space; otherwise `&quot;` is appended and the state   *)
(* is unchanged.  A single-quoted value does the same with `'` and         *)
(* `&apos;`: swapping the two quote characters in the input swaps them,    *)
(* and the two entities written for them, in the output.                   *)
C18_QuoteCloses ==
    pc = "done" =>
        /\ \A k \in DOMAIN hist : \A quote \in {"\"", "'"} :
              OwnQuote(k, quote) =>
                  IF CharAfter(k) \in {"", ">", "/", "?"} \cup Whitespace
                  THEN /\ hist[k].out = <<quote>>
                       /\ StateAfter(k) = STATE_ATTR_NAME
                  ELSE /\ hist[k].out = (IF quote = "\"" THEN ENT_QUOT
                                         ELSE ENT_APOS)
                       /\ StateAfter(k) = hist[k].state
        /\ sanitizeXml(SwapQuotes(xml)) = SwappedOut(1, Len(hist))

\* a finished run with a `"` escaped inside a double-quoted value (another
\* `"` follows it) and a `"` before `?` that closed the value
C18_Witness ==
    /\ pc = "done"
    /\ \E k, m \in DOMAIN hist :
          /\ OwnQuote(k, "\"") /\ CharAfter(k) = "\""
          /\ hist[k].out = ENT_QUOT
          /\ OwnQuote(m, "\"") /\ CharAfter(m) = "?"
          /\ StateAfter(m) = STATE_ATTR_NAME

\* the input continues with `opener` at the character iteration k read
OpenerAt(k, opener) == StartsWith(xml, opener, hist[k].i)

\* the states inside a tag: its name, its attributes, a quoted value
TagStates ==
    {STATE_TAG_OPEN, STATE_TAG_NAME, STATE_ATTR_NAME, STATE_ATTR_VALUE_DQ,
     STATE_ATTR_VALUE_Q}

(* C19: how comments and CDATA sections are entered.  In TEXT state a `<`  *)
(* at which the input continues with `<![CDATA[` or `<!--` leads to CDATA  *)
(* or COMMENT, before the tag-start rule is looked at: the opener is       *)
(* appended whole and the cursor moves past it, by 9 or 4 characters.      *)
(* COMMENT and CDATA are entered in no other way: the same sequences read  *)
(* inside a tag or a quoted attribute value never lead to them.            *)
C19_OpenersOnlyInText ==
    pc = "done" =>
        \A k \in DOMAIN hist :
            /\ (hist[k].state = STATE_TEXT /\ OpenerAt(k, CDATA_OPEN)) =>
                  /\ hist[k].out = CDATA_OPEN
                  /\ hist[k].n = 9
                  /\ StateAfter(k) = STATE_CDATA
            /\ (hist[k].state = STATE_TEXT /\ OpenerAt(k, COMMENT_OPEN)) =>
                  /\ hist[k].out = COMMENT_OPEN
                  /\ hist[k].n = 4
                  /\ StateAfter(k) = STATE_COMMENT
            /\ (StateAfter(k) = STATE_CDATA /\ hist[k].state # STATE_CDATA) =>
                  hist[k].state = STATE_TEXT /\ OpenerAt(k, CDATA_OPEN)
            /\ (StateAfter(k) = STATE_COMMENT
                   /\ hist[k].state # STATE_COMMENT) =>
                  hist[k].state = STATE_TEXT /\ OpenerAt(k, COMMENT_OPEN)
            /\ hist[k].state \in TagStates =>
                  StateAfter(k) \notin {STATE_COMMENT, STATE_CDATA}

\* a finished run that entered COMMENT at a `<!--` read in TEXT state and
\* later read `<!--` inside a double-quoted value, where its `<` was escaped
C19_Witness ==
    /\ pc = "done"
    /\ \E k, m \in DOMAIN hist :
          /\ hist[k].state = STATE_TEXT /\ OpenerAt(k, COMMENT_OPEN)
          /\ StateAfter(k) = STATE_COMMENT
          /\ hist[m].state = STATE_ATTR_VALUE_DQ /\ OpenerAt(m, COMMENT_OPEN)
          /\ hist[m].out = ENT_LT
          /\ StateAfter(m) = STATE_ATTR_VALUE_DQ

\* iteration k read a `>` after which the output ends with `close`
ClosedAt(k, close) ==
    CharRead(k) = ">" /\ EndsWith(OutOf(1, k), close)

\* the state at the end of the run on `input`
EndsIn(input, last) == xml = input => state = last

(* C20: how comments and CDATA sections end.  In COMMENT state every       *)
(* character is copied, and the state goes back to TEXT at the `>` after   *)
(* which the output ends with `-->`, at once and at no other character;    *)
(* CDATA does the same with `]]>`.  The hyphens of the opener count, so    *)
(* the first `>` closes the comment in `<!-->` and in `<!--->`; the        *)
(* terminator of a CDATA section never overlaps its opener: the two `]`    *)
(* were read inside the section.                                           *)
C20_SectionEnds ==
    pc = "done" =>
        /\ \A k \in DOMAIN hist :
              /\ hist[k].state = STATE_COMMENT =>
                    /\ hist[k].out = <<CharRead(k)>>
                    /\ hist[k].n = 1
                    /\ StateAfter(k) = IF ClosedAt(k, COMMENT_CLOSE)
                                       THEN STATE_TEXT ELSE STATE_COMMENT
                    /\ ClosedAt(k, COMMENT_CLOSE) <=>
                          /\ CharRead(k) = ">"
                          /\ xml[hist[k].i] = "-"
                          /\ xml[hist[k].i - 1] = "-"
              /\ hist[k].state = STATE_CDATA =>
                    /\ hist[k].out = <<CharRead(k)>>
                    /\ hist[k].n = 1
                    /\ StateAfter(k) = IF ClosedAt(k, CDATA_CLOSE)
                                       THEN STATE_TEXT ELSE STATE_CDATA
                    /\ ClosedAt(k, CDATA_CLOSE) =>
                          /\ k > 2
                          /\ hist[k - 1].state = STATE_CDATA
                          /\ hist[k - 2].state = STATE_CDATA
                          /\ CharRead(k - 1) = "]" /\ CharRead(k - 2) = "]"
        /\ EndsIn(COMMENT_OPEN \o <<">">>, STATE_TEXT)
        /\ EndsIn(COMMENT_OPEN \o <<"-", ">">>, STATE_TEXT)
        /\ EndsIn(CDATA_OPEN \o <<">">>, STATE_CDATA)
        /\ EndsIn(CDATA_OPEN \o <<"]", ">">>, STATE_CDATA)
        /\ EndsIn(CDATA_OPEN \o CDATA_CLOSE, STATE_TEXT)

\* a finished run whose comment was closed by the `>` right after the
\* opener, which was copied
C20_Witness ==
    /\ pc = "done"
    /\ \E k \in DOMAIN hist :
          /\ k > 1
          /\ hist[k - 1].state = STATE_TEXT
          /\ hist[k - 1].out = COMMENT_OPEN
          /\ hist[k].state = STATE_COMMENT
          /\ ClosedAt(k, COMMENT_CLOSE)
          /\ hist[k].out = <<">">>
          /\ StateAfter(k) = STATE_TEXT
(* The rules inside a tag and the relation between input and output, on    *)
(* the runs of CharSpec.                                                   *)

\* the state changes the three rows of C21 allow for iteration k
ListedChange(k) ==
    \/ /\ hist[k].state = STATE_TAG_NAME /\ CharRead(k) \in Whitespace
       /\ StateAfter(k) = STATE_ATTR_NAME
    \/ /\ hist[k].state = STATE_ATTR_NAME /\ CharRead(k) = "\""
       /\ StateAfter(k) = STATE_ATTR_VALUE_DQ
    \/ /\ hist[k].state = STATE_ATTR_NAME /\ CharRead(k) = "'"
       /\ StateAfter(k) = STATE_ATTR_VALUE_Q
    \/ CharRead(k) = ">" /\ StateAfter(k) = STATE_TEXT

\* every character read in the three states is copied, and the state
\* changes where `changes` says so and nowhere else
CopiedInsideTag(changes(_)) ==
    pc = "done" =>
        \A k \in DOMAIN hist :
            hist[k].state \in InsideTag =>
                /\ hist[k].out = <<CharRead(k)>>
                /\ hist[k].n = 1
                /\ StateAfter(k) # hist[k].state => changes(k)
                /\ (hist[k].state = STATE_TAG_NAME
                       /\ CharRead(k) \in {"\"", "'"}) =>
                      StateAfter(k) = STATE_TAG_NAME

(* C21, as stated: in TAG_OPEN, TAG_NAME and ATTR_NAME every character is  *)
(* copied unchanged, `<`, `&` and the quotes included, and the only state  *)
(* changes are TAG_NAME to ATTR_NAME on white space, ATTR_NAME to a        *)
(* quoted-value state on `"` or `'`, and any of the three to TEXT on `>`;  *)
(* a quote met in TAG_NAME does not open a value.                          *)
C21_InsideTag == CopiedInsideTag(ListedChange)

(* C21, amended: the same, with one more state change: TAG_OPEN goes to    *)
(* TAG_NAME on every character other than `>`.                             *)
C21_InsideTagWithTagOpen ==
    CopiedInsideTag(LAMBDA k :
        \/ ListedChange(k)
        \/ /\ hist[k].state = STATE_TAG_OPEN /\ CharRead(k) # ">"
           /\ StateAfter(k) = STATE_TAG_NAME)

\* a finished run that went from TAG_OPEN to TAG_NAME on a letter and then
\* copied a quote in TAG_NAME and stayed there
C21_Witness ==
    /\ pc = "done"
    /\ \E k, m \in DOMAIN hist :
          /\ hist[k].state = STATE_TAG_OPEN /\ CharRead(k) = "a"
          /\ StateAfter(k) = STATE_TAG_NAME
          /\ hist[m].state = STATE_TAG_NAME /\ CharRead(m) = "\""
          /\ hist[m].out = <<"\"">>
          /\ StateAfter(m) = STATE_TAG_NAME
\* the entity of each of the five characters that have one
EntityOf(char) ==
    CASE char = "<" -> ENT_LT
      [] char = ">" -> ENT_GT
      [] char = "&" -> ENT_AMP
      [] char = "\"" -> ENT_QUOT
      [] char = "'" -> ENT_APOS

\* is output, from position q on, the concatenation of one piece for each
\* character of input from position p on, each piece the character itself
\* or its entity?
RECURSIVE Pieces(_, _, _, _)
Pieces(input, p, output, q) ==
    IF p > Len(input) THEN q = Len(output) + 1
    ELSE /\ q <= Len(output)
         /\ \/ output[q] = input[p] /\ Pieces(input, p + 1, output, q + 1)
            \/ /\ input[p] \in {"<", ">", "&", "\"", "'"}
               /\ StartsWith(output, EntityOf(input[p]), q - 1)
               /\ Pieces(input, p + 1, output,
                         q + Len(EntityOf(input[p])))

(* C22: no input character is dropped, duplicated or reordered.  At every  *)
(* moment of the scan the output is the concatenation, in input order, of  *)
(* one piece for each character read so far, each piece being the          *)
(* character itself or its entity (`&lt;`, `&gt;`, `&amp;`, `&quot;`,      *)
(* `&apos;`); a character other than these five is never changed.         *)
C22_PiecePerCharacter ==
    Pieces(SubSeq(xml, 1, i), 1, result, 1)

\* a finished run that copied one `<` (a tag start) and wrote another one
\* (inside a quoted value) as `&lt;`
C22_Witness ==
    /\ pc = "done"
    /\ \E k, m \in DOMAIN hist :
          /\ CharRead(k) = "<" /\ hist[k].out = <<"<">>
          /\ CharRead(m) = "<" /\ hist[m].out = ENT_LT
          /\ hist[m].state \in AttrValueStates
(* C23: sanitizeXml is idempotent on every input, clean or not: for every  *)
(* string s over `<`, `>`, `&`, `;`, `#`, the two quotes, `!`, `-`, `[`,   *)
(* `]`, `/`, white space and letters, sanitizing the output of             *)
(* sanitizeXml(s) once more gives that output again.                       *)
C23_Idempotent ==
    pc = "done" => sanitizeXml(result) = result

\* a finished run on an input that was not clean: a `&` was written as
\* `&amp;` and a `<` as `&lt;`
C23_Witness ==
    /\ pc = "done"
    /\ result # xml
    /\ \E k, m \in DOMAIN hist :
          /\ CharRead(k) = "&" /\ hist[k].out = ENT_AMP
          /\ CharRead(m) = "<" /\ hist[m].out = ENT_LT
\* the quote character that delimits the value iteration k was in
QuoteOf(k) == IF hist[k].state = STATE_ATTR_VALUE_DQ THEN "\"" ELSE "'"

(* C24: a quoted attribute value is left only through its closing quote.   *)
(* From ATTR_VALUE_DOUBLE or ATTR_VALUE_SINGLE the state changes only at   *)
(* a quote of the value's own style that is followed by the end of the     *)
(* input, `>`, `/`, `?` or white space, and then to ATTR_NAME.  So when a  *)
(* run ends inside a value, every `<` and `>` read since the value was     *)
(* entered was written as `&lt;` or `&gt;` and no tag was recognised.      *)
C24_ValueLeftByOwnQuote ==
    pc = "done" =>
        /\ \A k \in DOMAIN hist :
              (hist[k].state \in AttrValueStates
                  /\ StateAfter(k) # hist[k].state) =>
                    /\ CharRead(k) = QuoteOf(k)
                    /\ CharAfter(k) \in {"", ">", "/", "?"} \cup Whitespace
                    /\ StateAfter(k) = STATE_ATTR_NAME
        /\ state \in AttrValueStates =>
              \A k \in DOMAIN hist :
                  (\A m \in k..Len(hist) : hist[m].state = state) =>
                      /\ CharRead(k) = "<" => hist[k].out = ENT_LT
                      /\ CharRead(k) = ">" => hist[k].out = ENT_GT
                      /\ StateAfter(k) = state

\* a finished run that ended inside a double-quoted value after reading,
\* in it, a `<` before a letter and a `>`
C24_Witness ==
    /\ pc = "done"
    /\ state = STATE_ATTR_VALUE_DQ
    /\ \E k, m \in DOMAIN hist :
          /\ hist[k].state = STATE_ATTR_VALUE_DQ
          /\ CharRead(k) = "<" /\ CharAfter(k) = "a"
          /\ hist[k].out = ENT_LT
          /\ m > k
          /\ CharRead(m) = ">" /\ hist[m].out = ENT_GT
(* C25: TAG_OPEN is held for exactly one character.  The character read    *)
(* in TAG_OPEN is the one the tag-start check saw: a letter, a digit, `_`, *)
(* `:`, `/`, `?` or `!`, never white space or `>`; the state after it is   *)
(* always TAG_NAME, so TAG_OPEN never goes to TEXT, is never held by two   *)
(* iterations in a row, and no run ends in TAG_OPEN.  (On the runs of      *)
(* LexSpec.)                                                               *)
C25_TagOpenOneCharacter ==
    /\ \A k \in DOMAIN hist :
          hist[k].state = STATE_TAG_OPEN =>
              /\ CharRead(k) \in Letters \cup Digits
                                   \cup {"_", ":", "/", "?", "!"}
              /\ StateAfter(k) = STATE_TAG_NAME
              /\ k > 1 /\ hist[k - 1].state = STATE_TEXT
              /\ hist[k - 1].out = <<"<">>
    /\ pc = "done" => state # STATE_TAG_OPEN

\* a finished run whose input ends with a `<` and the one character after
\* it: TAG_OPEN was held for that character and the run ended in TAG_NAME
C25_Witness ==
    /\ pc = "done"
    /\ state = STATE_TAG_NAME
    /\ Len(hist) > 1
    /\ hist[Len(hist)].state = STATE_TAG_OPEN
    /\ CharRead(Len(hist)) = "?"
(* C26: the two copies of the sanitizer are equivalent.  For every input   *)
(* the sanitizeXml of test_sanitize.js, whose COMMENT branch first tests   *)
(* xml.startsWith('-->', i - 2), returns the output of the background      *)
(* script's sanitizeXml and passes through the same sequence of states.    *)
(* (On the runs of LexSpec.)                                               *)
C26_CopiesEquivalent ==
    pc = "done" =>
        /\ testSanitizeXml(xml).result = result
        /\ testSanitizeXml(xml).states =
              [k \in DOMAIN hist |-> hist[k].state] \o <<state>>

\* a finished run that read, in a comment, a `>` that did not close it and
\* then the `>` that did
C26_Witness ==
    /\ pc = "done"
    /\ \E k, m \in DOMAIN hist :
          /\ hist[k].state = STATE_COMMENT /\ CharRead(k) = ">"
          /\ StateAfter(k) = STATE_TEXT
          /\ hist[m].state = STATE_COMMENT /\ CharRead(m) = ">"
          /\ StateAfter(m) = STATE_COMMENT
(***************************************************************************)
(* The debounced processPendingBlocks.                                     *)
(***************************************************************************)

\* C27: the function debounce returns runs func only when the wait has
\* elapsed since the most recent call, with no call in between: a run is
\* the firing of the timer that call set, the wait after it.  A burst of
\* calls, each made while the timer of the one before is still running,
\* causes exactly one run: none before the last call of the burst, never
\* more than one after it.  And once calls stop, func does run: from some
\* time on the timer is idle and func has run once since the last call.
C27_Debounce ==
    /\ [](/\ ran \in {0, 1}
          /\ timeout => ran = 0
          /\ ran = 1 => elapsed = WaitTicks)
    /\ [][ran' # ran =>
             \/ ran' = ran + 1 /\ timeout /\ elapsed = WaitTicks /\ ~timeout'
             \/ ran' = 0 /\ timeout' /\ elapsed' = 0]_vars
    /\ [][~cleared /\ cleared' =>
             timeout /\ ran = 0 /\ timeout' /\ ran' = 0 /\ elapsed' = 0]_vars
    /\ <>[](~timeout /\ ran = 1)

\* a burst of calls, each but the first clearing the timer of the one
\* before, has caused its one run
C27_Witness == cleared /\ ran = 1 /\ ~timeout
(***************************************************************************)
(* The blocks of the content script: processed once, retried six times.    *)
(***************************************************************************)

\* the buttons created for a block
ButtonsOf(block) == {k \in DOMAIN buttons : buttons[k].for = block}

IsPending(blocks, block) == \E k \in DOMAIN blocks : blocks[k] = block

\* C28: buttons are created for a block in at most one run of
\* processPendingBlocks, the run that adds it to processedBlocks.  Once a
\* block is in processedBlocks, no step removes it from the set, no
\* mutation adds it to pendingBlocks and no run creates a button for it.
C28_ProcessedOnce ==
    [][\A block \in TagSet :
         /\ ButtonsOf(block)' # ButtonsOf(block) =>
                block \notin processedBlocks /\ block \in processedBlocks'
         /\ block \in processedBlocks =>
                /\ block \in processedBlocks'
                /\ ~IsPending(pendingBlocks', block)
                /\ ButtonsOf(block)' = ButtonsOf(block)]_vars

\* on ChatGPT the CODE element of a PRE is processed and has its button,
\* and its text has changed since to one no type is detected for: a
\* mutation the observer's rules for PRE and CODE saw
C28_Witness ==
    /\ site = "chatgpt"
    /\ page.elems = {"PRE", "CODE"}
    /\ "CODE" \in processedBlocks
    /\ ButtonsOf("CODE") # {}
    /\ DetectedType("CODE") = NoType
\* C29: duplicate avoidance between a PRE and its CODE child.  For a PRE
\* element that contains a CODE element, on every site and for every order
\* of mutations, at most one of the two is marked processed and given
\* buttons; on ChatGPT a PRE element is never in pendingBlocks.
C29_PreOrCode ==
    /\ {"PRE", "CODE"} \subseteq page.elems =>
          /\ ~({"PRE", "CODE"} \subseteq processedBlocks)
          /\ ButtonsOf("PRE") = {} \/ ButtonsOf("CODE") = {}
    /\ site = "chatgpt" => ~IsPending(pendingBlocks, "PRE")
\* a step is a run of processPendingBlocks
IsRun == ran' = ran + 1

\* C30: the retry limit.  A pending block whose type detection fails in a
\* run of processPendingBlocks has its counter incremented by one in that
\* run, and the counter changes in no other way: it is never reset.  The
\* block is removed from pendingBlocks in the run in which its counter
\* comes to exceed 5, its sixth failed run, and in no failed run before; a
\* block enqueued again after that is removed in its next failed run.
C30_RetryLimit ==
    [][\A block \in TagSet :
         LET before == retryCount[block]
             after == retryCount'[block]
             failed == /\ IsRun
                       /\ IsPending(pendingBlocks, block)
                       /\ ~Closest(page, block, "CODE-BLOCK")
                       /\ DetectedType(block) = NoType
         IN  /\ after = IF failed THEN before + 1 ELSE before
             /\ failed =>
                   (IsPending(pendingBlocks', block) <=> after <= 5)
             /\ failed /\ before >= 6 => ~IsPending(pendingBlocks', block)
             /\ failed /\ before < 5 => IsPending(pendingBlocks', block)]_vars

\* a block was given up after six failed runs, enqueued again and removed
\* in one further failed run
C30_Witness ==
    \E block \in TagSet :
        retryCount[block] = 7 /\ ~IsPending(pendingBlocks, block)
\* C31: no block stays pending for ever.  Once the page has stopped
\* changing, every block that is in pendingBlocks is removed from it, marked
\* processed or given up after its retries: from some time on pendingBlocks
\* is empty.
C31_NoBlockPendingForEver == <>[](pendingBlocks = <<>>)
\* does a run of processPendingBlocks over `blocks` come to a block that is
\* in processedBlocks already: is the skip at the top of its loop taken?
RECURSIVE SkipTaken(_, _)
SkipTaken(run, blocks) ==
    IF blocks = <<>> THEN FALSE
    ELSE \/ Head(blocks) \in run.processedBlocks
         \/ SkipTaken(ProcessBlock(run, Head(blocks)), Tail(blocks))

\* C32: pendingBlocks and processedBlocks are disjoint between the tasks of
\* the event loop: after the initial pass, after every callback of the
\* observer and after every run of processPendingBlocks no block is in
\* both sets, and a run that starts then never takes the skip of a block
\* already processed.
C32_PendingProcessedDisjoint ==
    /\ \A block \in processedBlocks : ~IsPending(pendingBlocks, block)
    /\ ~SkipTaken([pendingBlocks |-> pendingBlocks,
                   processedBlocks |-> processedBlocks,
                   retryCount |-> retryCount,
                   buttons |-> buttons], pendingBlocks)

\* a run is due with a block processed before and another pending
C32_Witness ==
    /\ timeout
    /\ elapsed = WaitTicks
    /\ processedBlocks # {}
    /\ pendingBlocks # <<>>
\* C33: the insertions of the content script schedule no more work.  The
\* observer's callback for the nodes a run inserted (the buttons, on Claude
\* the SPAN containers) adds nothing to pendingBlocks and does not call
\* processPendingBlocks: it leaves the timer as it is.  So once the page
\* has stopped changing the script runs finitely often and becomes idle:
\* from some time on no timer is armed and no record is waiting.
C33_OwnInsertionsIdle ==
    /\ [][records # <<>> /\ records' = <<>> =>
             /\ pendingBlocks' = pendingBlocks
             /\ UNCHANGED <<timeout, elapsed, ran, cleared>>]_vars
    /\ <>[](~timeout /\ records = <<>>)

\* a run has inserted a button and left another block pending: the
\* observer's callback for the insertion is due
C33_Witness == records # <<>> /\ pendingBlocks # <<>>
(***************************************************************************)
(* The click handler of a button and the health check of the content       *)
(* script.  The extension's context can be lost at any time (the extension *)
(* is reloaded); a click handler runs up to its await of sendMessage and   *)
(* is resumed when the promise settles, with other clicks and the health   *)
(* check in between.                                                       *)
(***************************************************************************)

MaxClicks == 3

\* the clicks made so far: each showed an alert at once or sent a message
Clicks == Len(SelectSeq(log, LAMBDA e : e \in {"refresh", "runtime", "send"}))

ClickInit ==
    /\ extensionContextValid = TRUE
    /\ healthCheckInterval = TRUE
    /\ runtime = "ok"
    /\ awaiting = 0
    /\ log = <<>>
    /\ SanIdle /\ ConcIdle /\ BgIdle /\ PageIdle

\* the extension is reloaded or updated: chrome.runtime.id is gone
Invalidate ==
    /\ runtime = "ok"
    /\ runtime' = "lost"
    /\ UNCHANGED <<extensionContextValid, healthCheckInterval, awaiting, log>>
    /\ UNCHANGED <<sanVars, concVars, bgVars, pageVars>>

\* the callback of setInterval, every 5 seconds
HealthCheck ==
    /\ healthCheckInterval
    /\ IF runtime = "lost"
       THEN extensionContextValid' = FALSE /\ healthCheckInterval' = FALSE
       ELSE UNCHANGED <<extensionContextValid, healthCheckInterval>>
    /\ UNCHANGED <<runtime, awaiting, log>>
    /\ UNCHANGED <<sanVars, concVars, bgVars, pageVars>>

\* a click on a button: the listener, up to its await
Click ==
    /\ Clicks < MaxClicks
    /\ IF ~extensionContextValid
       THEN /\ log' = Append(log, "refresh")
            /\ UNCHANGED <<extensionContextValid, awaiting>>
       ELSE IF runtime = "lost"
       THEN /\ extensionContextValid' = FALSE
            /\ log' = Append(log, "runtime")
            /\ UNCHANGED awaiting
       ELSE /\ log' = Append(log, "send")
            /\ awaiting' = awaiting + 1
            /\ UNCHANGED extensionContextValid
    /\ UNCHANGED <<healthCheckInterval, runtime>>
    /\ UNCHANGED <<sanVars, concVars, bgVars, pageVars>>

\* Faulty variant: a message that went through sets the flag again.
SendSettled_Recovers(rejected) ==
    /\ awaiting > 0
    /\ ~rejected => runtime = "ok"
    /\ awaiting' = awaiting - 1
    /\ IF rejected
       THEN extensionContextValid' = FALSE /\ log' = Append(log, "failed")
       ELSE extensionContextValid' = TRUE /\ log' = Append(log, "ok")
    /\ UNCHANGED <<healthCheckInterval, runtime>>
    /\ UNCHANGED <<sanVars, concVars, bgVars, pageVars>>

\* the promise of sendMessage settles and the listener goes on: to the
\* console.log, or into the catch when the promise was rejected; it is
\* fulfilled only while the context is there
SendSettled(rejected) ==
    /\ awaiting > 0
    /\ ~rejected => runtime = "ok"
    /\ awaiting' = awaiting - 1
    /\ IF rejected
       THEN extensionContextValid' = FALSE /\ log' = Append(log, "failed")
       ELSE UNCHANGED extensionContextValid /\ log' = Append(log, "ok")
    /\ UNCHANGED <<healthCheckInterval, runtime>>
    /\ UNCHANGED <<sanVars, concVars, bgVars, pageVars>>

ClickNext ==
    \/ Invalidate
    \/ HealthCheck
    \/ Click
    \/ \E rejected \in BOOLEAN : SendSettled(rejected)

ClickSpec == ClickInit /\ [][ClickNext]_vars

\* C34: extensionContextValid is a one-way latch.  It starts true; a step
\* sets it to false only as the health check that finds no
\* chrome.runtime.id, as a click that finds none, or as a sendMessage that
\* failed; no step sets it back to true.  While it is false every click
\* shows the refresh alert and sends no message.
C34_OneWayLatch ==
    /\ extensionContextValid = TRUE
    /\ [][/\ ~extensionContextValid => ~extensionContextValid'
          /\ extensionContextValid /\ ~extensionContextValid' =>
                \/ /\ runtime = "lost"
                   /\ healthCheckInterval /\ ~healthCheckInterval'
                \/ runtime = "lost" /\ log' = Append(log, "runtime")
                \/ log' = Append(log, "failed")
          /\ ~extensionContextValid /\ log' # log =>
                \/ log' = Append(log, "refresh")
                \/ awaiting' = awaiting - 1 /\ Clicks' = Clicks]_vars

\* the flag is false, a message sent before went through after that, and a
\* click made since was answered with the refresh alert
C34_Witness ==
    /\ ~extensionContextValid
    /\ \E k \in DOMAIN log : \E m \in DOMAIN log :
          k < m /\ log[k] = "ok" /\ log[m] = "refresh"
(***************************************************************************)
(* The onMessage listener of the background script and its responses.      *)
(***************************************************************************)

\* C35: for every open_drawio message the listener returns true, and one
\* response is sent on its channel: none before the promise of
\* processDiagram has settled, never a second, and from some time on
\* every such message has its one response.  For a message with another
\* action the listener returns false, calls nothing and sends no response.
C35_OneResponse ==
    /\ [](\A c \in DOMAIN channels :
            IF channels[c].action = "open_drawio"
            THEN /\ channels[c].kept
                 /\ channels[c].task \in DOMAIN tasks
                 /\ Len(channels[c].responses) <= 1
                 /\ channels[c].responses # <<>> =>
                       Settled(tasks[channels[c].task])
            ELSE /\ ~channels[c].kept
                 /\ channels[c].task = 0
                 /\ channels[c].responses = <<>>)
    /\ <>[](\A c \in DOMAIN channels :
              channels[c].action = "open_drawio" =>
                 Len(channels[c].responses) = 1)

\* a message with another action was handled, and an open_drawio message
\* whose call was suspended in compressData has its response
C35_Witness ==
    /\ \E c \in DOMAIN channels : channels[c].action = "other"
    /\ \E c \in DOMAIN channels :
          /\ channels[c].action = "open_drawio"
          /\ Len(channels[c].responses) = 1
          /\ Ran(tasks[channels[c].task], "compressData")
\* C36: the response to an open_drawio message reports what happened: when
\* the call of processDiagram failed (compressData or chrome.tabs.create
\* threw) the response has success false, and a response with success true
\* is sent only when the call opened a tab.
C36_ErrorReported ==
    \A c \in DOMAIN channels :
        \A k \in DOMAIN channels[c].responses :
            /\ tasks[channels[c].task].pc = "caught" =>
                  ~channels[c].responses[k].success
            /\ channels[c].responses[k].success =>
                  \E b \in DOMAIN tabs : tabs[b].by = channels[c].task
(***************************************************************************)
(* The clicks on the context menu item.                                    *)
(***************************************************************************)

\* this step calls processDiagram(content, type) once, or not at all
CalledWith(content, type) ==
    /\ Len(tasks') = Len(tasks) + 1
    /\ SubSeq(tasks', 1, Len(tasks)) = tasks
    /\ tasks'[Len(tasks')].content = content
    /\ tasks'[Len(tasks')].type = type
    /\ tasks'[Len(tasks')].pc = "entry"

NotCalled == tasks' = tasks

\* the selection text of a click with the type the background script detects
\* in it, if there is a selection text
SelectionCalled(info) ==
    IF info.selectionText # <<>>
    THEN CalledWith(info.selectionText,
                    detectTypeFromText(info.selectionText))
    ELSE NotCalled

\* C37: the click listener itself calls nothing, and it sends no message
\* to a tab without an id; when the callback of the message of a click
\* runs, processDiagram is called at most once: on a messaging error with
\* the selection text and the type detectTypeFromText finds in it;
\* otherwise, when the content of the response is not empty, with that
\* content and the type of the response, 'xml' when it has none; otherwise
\* with the selection text again; and not at all without a selection text.
C37_MenuClick ==
    [][/\ events' # events =>
            \A text \in BgTexts, hasId \in BOOLEAN :
                OnClicked([selectionText |-> text], [hasId |-> hasId]) =>
                    /\ NotCalled
                    /\ ~hasId => menu' = menu
       /\ Len(menu') < Len(menu) =>
            /\ Len(tasks') <= Len(tasks) + 1
            /\ \A k \in DOMAIN menu :
                  /\ OnResponse(k, TRUE, Undefined) =>
                        SelectionCalled(menu[k])
                  /\ \A response \in Responses :
                        OnResponse(k, FALSE, response) =>
                           IF response.content # <<>>
                           THEN CalledWith(response.content,
                                           IF response.type = NoType
                                           THEN "xml" ELSE response.type)
                           ELSE SelectionCalled(menu[k])
       /\ Len(menu') >= Len(menu) /\ events' = events =>
            Len(tasks') = Len(tasks)]_vars

\* the callbacks of two clicks have run: one call was made with the content
\* of a response, one with a selection text
C37_Witness ==
    /\ menu = <<>>
    /\ events = 2
    /\ \E t \in DOMAIN tasks : tasks[t].source = "response"
    /\ \E t \in DOMAIN tasks : tasks[t].source = "fallback"
(***************************************************************************)
(* The two type detectors.                                                 *)
(***************************************************************************)

\* the two detectors on one text
DetectorsAgree(text) ==
    /\ detectTypeFromText(text) \in {"xml", "mermaid"}
    /\ detectDiagramType(text, NoElement) # NoType =>
          detectTypeFromText(text) = detectDiagramType(text, NoElement)

\* C38: for the selection text of every click and for the content of every
\* call, detectTypeFromText returns 'xml' or 'mermaid', and the type
\* detectDiagramType returns for the text without an element when it
\* returns one; every call of processDiagram, from a button, from the
\* response of the content script or with the selection text, has the
\* type 'xml' or 'mermaid'.
C38_DetectorsAgree ==
    /\ \A k \in DOMAIN menu : DetectorsAgree(menu[k].selectionText)
    /\ \A t \in DOMAIN tasks :
          /\ DetectorsAgree(tasks[t].content)
          /\ tasks[t].type \in {"xml", "mermaid"}
          /\ tasks[t].source = "fallback" /\
               detectDiagramType(tasks[t].content, NoElement) # NoType =>
                  tasks[t].type =
                     detectDiagramType(tasks[t].content, NoElement)

\* a call made with a selection text that does not start with a keyword
\* but holds one, in which the content script detects a Draw.io file
C38_Witness ==
    \E t \in DOMAIN tasks :
        /\ tasks[t].source = "fallback"
        /\ detectDiagramType(tasks[t].content, NoElement) = "xml"
        /\ \E keyword \in MermaidKeywords :
              Includes(tasks[t].content, keyword)
        /\ tasks[t].type = "xml"
        /\ tasks[t].pc = "returned"
====
